---- MODULE Spec2Model ----
(***************************************************************************)
(* Model of the HVF vCPU run loop for ARM64 (target/arm/hvf/hvf.c) and of  *)
(* the accelerator-independent helpers next to it (assert_hvf_ok and the   *)
(* breakpoint patching).                                                   *)
(*                                                                         *)
(* Representation.  A 64-bit register value is the set of its set bit      *)
(* positions, a subset of 0..63: & is intersection, | is union, a mask is  *)
(* a set of positions and x + 2^k is a carry chain.  Timer values (the     *)
(* compare value, the host counter) are naturals modulo 2^TimerBits, a     *)
(* scaled word that keeps the wrap-around and the sign of the 64-bit       *)
(* arithmetic.  Guest memory is a byte array, a byte being the set of its  *)
(* set bit positions 0..7.                                                 *)
(***************************************************************************)
EXTENDS Integers, Sequences, FiniteSets, TLC

(***************************************************************************)
(* Bounds of the model.                                                    *)
(***************************************************************************)
\* general-purpose registers X0..X(NumXRegs-1) are modelled
NumXRegs == 4
\* SIMD registers Q0..Q(NumQRegs-1) are modelled
NumQRegs == 1
\* highest faulting guest-physical address of a data abort
MaxPhysAddr == 1
\* CPUs of the machine, numbered by affinity value 0..(NumCpus-1)
NumCpus == 2
\* width of the scaled timer words
TimerBits == 12

(***************************************************************************)
(* Words.                                                                  *)
(***************************************************************************)
WordBits == 64
AllOnes == 0..(WordBits - 1)

\* the set bits of a natural below 2^31
BitsOf(n) == {b \in 0..30 : (n \div (2^b)) % 2 = 1}

\* a constant written as its hexadecimal digits, most significant first
Hex(ds) == UNION {{4 * (Len(ds) - i) + b : b \in BitsOf(ds[i])} : i \in 1..Len(ds)}

RECURSIVE NatOf(_)
\* the number a set of bit positions below 31 stands for
NatOf(w) == IF w = {} THEN 0
            ELSE LET b == CHOOSE x \in w : TRUE IN 2^b + NatOf(w \ {b})

\* (w >> shift) & (2^width - 1), as a number
Field(w, shift, width) == NatOf({b - shift : b \in w \cap (shift..(shift + width - 1))})

\* conversion of an int32_t to uint64_t (sign extension)
Int32ToU64(n) == IF n >= 0 THEN BitsOf(n) ELSE AllOnes \ BitsOf(-n - 1)

\* truncation to uint32_t
U32(w) == w \cap (0..31)

RECURSIVE AddPow2(_, _)
\* w + 2^k modulo 2^64
AddPow2(w, k) == IF k >= WordBits THEN w
                 ELSE IF k \in w THEN AddPow2(w \ {k}, k + 1)
                 ELSE w \cup {k}

(***************************************************************************)
(* Hypervisor.framework register identifiers (hv_reg_t) and the match      *)
(* tables.                                                                 *)
(***************************************************************************)
HV_REG_X0 == 0
HV_REG_PC == 31
HV_REG_FPCR == 32
HV_REG_FPSR == 33
HV_REG_CPSR == 34

XIdx == 0..(NumXRegs - 1)
QIdx == 0..(NumQRegs - 1)
HvRegs == {HV_REG_X0 + i : i \in XIdx} \cup {HV_REG_PC, HV_REG_FPCR, HV_REG_FPSR, HV_REG_CPSR}

\* hvf_reg_match: X0.. then PC, each paired with its CPUARMState field
hvf_reg_match ==
    [i \in 1..(NumXRegs + 1) |->
        IF i <= NumXRegs THEN [reg |-> HV_REG_X0 + (i - 1), offset |-> <<"xregs", i - 1>>]
        ELSE [reg |-> HV_REG_PC, offset |-> <<"pc">>]]

\* hvf_fpreg_match: Qn paired with vfp.zregs[n]
hvf_fpreg_match == [i \in 1..NumQRegs |-> [reg |-> i - 1, offset |-> <<"zregs", i - 1>>]]

\* hvf_sreg_match: the modelled rows of the table, in table order
hvf_sreg_match ==
    << [reg |-> "HV_SYS_REG_MDSCR_EL1",     key |-> "MDSCR_EL1"],
       [reg |-> "HV_SYS_REG_SPSR_EL1",      key |-> "SPSR_EL1"],
       [reg |-> "HV_SYS_REG_ELR_EL1",       key |-> "ELR_EL1"],
       [reg |-> "HV_SYS_REG_ESR_EL1",       key |-> "ESR_EL1"],
       [reg |-> "HV_SYS_REG_VBAR_EL1",      key |-> "VBAR_EL1"],
       [reg |-> "HV_SYS_REG_CNTV_CTL_EL0",  key |-> "CNTV_CTL_EL0"],
       [reg |-> "HV_SYS_REG_CNTV_CVAL_EL0", key |-> "CNTV_CVAL_EL0"] >>

HvSysRegs == {hvf_sreg_match[i].reg : i \in DOMAIN hvf_sreg_match}
CpKeys == {hvf_sreg_match[i].key : i \in DOMAIN hvf_sreg_match}

(***************************************************************************)
(* State.                                                                  *)
(***************************************************************************)
VARIABLES
    hw,            \* the accelerator's vCPU: reg, simd, sysreg, pending, vtimer_mask, ...
    env,           \* CPUARMState of the emulated CPU
    cpreg_values,  \* ARMCPU.cpreg_values, indexed like hvf_sreg_match
    vcpu_dirty,    \* CPUState.vcpu_dirty
    mem,           \* guest physical memory (address_space_memory)
    cpu,           \* other CPUState / hvf vcpu fields
    machine,       \* the rest of the virtual machine seen by this vCPU
    aborted,       \* the process has aborted (abort(), a failed assert)
    obs,           \* what the last operation was given and what it returned
    thread         \* where the vCPU thread and a device thread are, SIG_IPI

vars == <<hw, env, cpreg_values, vcpu_dirty, mem, cpu, machine, aborted, obs, thread>>

\* the state as one record, threaded through the operators below; the last fields
\* are locals of the running operation (its call trace, its blocking wait, its
\* return value, hvf_vcpu_exec's advance_pc, whether hv_vcpu_run was entered, the
\* hardware state at the exit, what hvf_handle_psci_call returned, the inputs)
NoWait == [kind |-> "none", sec |-> 0, nsec |-> 0]
\* what the environment answers during one operation: the host counter at the three
\* mach_absolute_time() calls, the value the coprocessor-register emulation returns
\* to a read, QEMU_CLOCK_VIRTUAL in nanoseconds, and the accelerator calls that
\* return an error status
NoInput ==
    [t_resume |-> 0, t_exit |-> 0, t_wfi |-> 0, cp_read |-> {}, vclock |-> 0, fail |-> {}]
\* the addresses the debugger patches, and what is known of each: the number of
\* insertions not yet removed, whether it was ever patched, and the instruction
\* it held before its first insertion
BpAddrs == {0, 4}
NoBreakpoints == [a \in BpAddrs |-> [n |-> 0, seen |-> FALSE, orig |-> {}]]

\* arm_host_cpu_features before its first use, as the set of its fields that
\* have been written; the threads that create CPUs, where each stands in
\* hvf_arm_set_cpu_features_from_host and the fields it found written when it
\* copied; the number of times the initialization was entered
ProbeThreads == {"t1", "t2"}
HostFields == {"dtb_compatible", "features", "midr", "isar", "reset_sctlr"}
NoHostFeatures ==
    [cache |-> {}, inits |-> 0, pc |-> [t \in ProbeThreads |-> "idle"],
     got |-> [t \in ProbeThreads |-> {}]]

\* two vCPU threads in hvf_vcpu_exec: where each stands, which of them holds
\* the lock, the time of each one's own last exit (0: none yet), what its last
\* resume added to its timer offset and what had passed since its own exit, and
\* whether exit_timestamp was accessed by a thread that did not hold the lock
VcpuThreads == {"a", "b"}
TwoVcpus ==
    [pc |-> [v \in VcpuThreads |-> IF v = "a" THEN "adjust" ELSE "wait_lock"],
     holder |-> "a",
     own_exit |-> [v \in VcpuThreads |-> 0],
     added |-> [v \in VcpuThreads |-> 0],
     due |-> [v \in VcpuThreads |-> 0],
     unlocked_access |-> FALSE]

\* the emulated CPU's flags before its thread has run
FreshCpu ==
    [interrupt_request |-> {}, halted |-> FALSE, thread_kicked |-> FALSE,
     singlestep_enabled |-> FALSE, vtimer_masked |-> FALSE,
     enable_debug |-> FALSE, mp_affinity |-> 0]

\* the vCPU thread at the top of its loop with no signal pending, the device
\* thread idle, no kick made
FreshThread ==
    [pc |-> "loop", ts |-> "forever", sig_ipi |-> FALSE, dev |-> "idle", kicked |-> FALSE]

\* what is recorded at a hardware resume: the dirty flag, the interrupt lines
\* asserted on the hardware vCPU, the emulated CPU's flags and the timer line
NoRun == [dirty |-> FALSE, pending |-> {}, cpu |-> FreshCpu, vtimer_irq |-> FALSE]

Cur == [hw |-> hw, env |-> env, cpreg_values |-> cpreg_values, vcpu_dirty |-> vcpu_dirty,
        mem |-> mem, cpu |-> cpu, machine |-> machine, aborted |-> aborted,
        trace |-> <<>>, wait |-> NoWait, ret |-> 0, advance_pc |-> FALSE,
        resumed |-> FALSE, hw_exit |-> hw, psci |-> -1, in |-> NoInput, at_run |-> NoRun]

Commit(s) ==
    /\ hw' = s.hw
    /\ env' = s.env
    /\ cpreg_values' = s.cpreg_values
    /\ vcpu_dirty' = s.vcpu_dirty
    /\ mem' = s.mem
    /\ cpu' = s.cpu
    /\ machine' = s.machine
    /\ aborted' = s.aborted
    /\ thread' = thread

\* an event of the operation is noted
Ev(s, e) == [s EXCEPT !.trace = Append(@, e)]

\* assert_hvf_ok on the status of an accelerator call: ok is the state after the
\* call if it succeeds; a status other than HV_SUCCESS is reported and abort()
\* ends the process
assert_hvf_ok(s, call, ok) ==
    IF call \in s.in.fail THEN Ev([s EXCEPT !.aborted = TRUE], <<"hv_error", call>>) ELSE ok

\* a register of the hardware vCPU is read: the dirty flag at the read is noted
hw_read(s) == Ev(s, <<"hw_read", s.vcpu_dirty>>)

\* an accelerator call whose status is not looked at: a failed call has no effect
status_ignored(s, call, ok) ==
    IF call \in s.in.fail THEN Ev(s, <<"hv_error", call>>) ELSE ok

(***************************************************************************)
(* Helpers of target/arm that hvf.c calls.                                 *)
(***************************************************************************)
FPCR_MASK == Hex(<<0, 7, 15, 15, 9, 15, 0, 0>>)
FPSR_MASK == Hex(<<15, 8, 0, 0, 0, 0, 9, 15>>)
PSTATE_DAIF == {6, 7, 8, 9}
PSTATE_NZCV == {28, 29, 30, 31}
PSTATE_BTYPE == {10, 11}
PSTATE_SS == {21}
CACHED_PSTATE_BITS == PSTATE_NZCV \cup PSTATE_DAIF \cup PSTATE_BTYPE

\* FPCR and FPSR are views of one emulated status word
vfp_set_fpcr(e, val) == [e EXCEPT !.fpscr = (@ \ FPCR_MASK) \cup (U32(val) \cap FPCR_MASK)]
vfp_get_fpcr(e) == e.fpscr \cap FPCR_MASK
vfp_set_fpsr(e, val) == [e EXCEPT !.fpscr = (@ \ FPSR_MASK) \cup (U32(val) \cap FPSR_MASK)]
vfp_get_fpsr(e) == e.fpscr \cap FPSR_MASK

\* the processor state is kept split: the flags, DAIF, BTYPE and the rest
pstate_write(e, val) ==
    [e EXCEPT !.ZF = {30} \ val,
              !.NF = U32(val),
              !.CF = IF 29 \in val THEN {0} ELSE {},
              !.VF = IF 28 \in val THEN {31} ELSE {},
              !.daif = val \cap PSTATE_DAIF,
              !.btype = {b - 10 : b \in val \cap PSTATE_BTYPE},
              !.pstate = U32(val) \ CACHED_PSTATE_BITS]

pstate_read(e) ==
    (e.NF \cap {31})
    \cup (IF e.ZF = {} THEN {30} ELSE {})
    \cup (IF e.CF # {} THEN {29} ELSE {})
    \cup (IF 31 \in e.VF THEN {28} ELSE {})
    \cup e.pstate \cup e.daif \cup {b + 10 : b \in e.btype}

\* the register cache is reconciled into the semantic fields and back
write_list_to_cpustate(s) ==
    [s EXCEPT !.env.cp = [k \in CpKeys |->
        LET i == CHOOSE j \in DOMAIN hvf_sreg_match : hvf_sreg_match[j].key = k
        IN s.cpreg_values[i]]]

write_cpustate_to_list(s) ==
    [s EXCEPT !.cpreg_values = [i \in DOMAIN hvf_sreg_match |-> s.env.cp[hvf_sreg_match[i].key]]]

\* the CPUARMState field at an offset of the match tables
EnvField(e, offset) ==
    CASE offset[1] = "xregs" -> e.xregs[offset[2]]
      [] offset[1] = "pc"    -> e.pc
      [] offset[1] = "zregs" -> e.zregs[offset[2]]

(***************************************************************************)
(* Register Transfer Layer.                                                *)
(***************************************************************************)
\* a mutant: the last row of hvf_reg_match, the program counter, is not pulled
hvf_get_registers_skip_pc(s) ==
    LET e1 == [s.env EXCEPT
                 !.xregs = [i \in XIdx |-> s.hw.reg[hvf_reg_match[i + 1].reg]],
                 !.zregs = [i \in QIdx |-> s.hw.simd[hvf_fpreg_match[i + 1].reg]]]
        e4 == pstate_write(vfp_set_fpsr(vfp_set_fpcr(e1, s.hw.reg[HV_REG_FPCR]),
                                        s.hw.reg[HV_REG_FPSR]), s.hw.reg[HV_REG_CPSR])
    IN write_list_to_cpustate(
           [s EXCEPT !.env = e4,
                     !.cpreg_values = [i \in DOMAIN hvf_sreg_match |->
                                          s.hw.sysreg[hvf_sreg_match[i].reg]]])

\* hvf_get_registers: hardware -> emulated state
hvf_get_registers(s) ==
    LET e1 == [s.env EXCEPT
                 !.xregs = [i \in XIdx |-> s.hw.reg[hvf_reg_match[i + 1].reg]],
                 !.pc = s.hw.reg[hvf_reg_match[NumXRegs + 1].reg],
                 !.zregs = [i \in QIdx |-> s.hw.simd[hvf_fpreg_match[i + 1].reg]]]
        e2 == vfp_set_fpcr(e1, s.hw.reg[HV_REG_FPCR])
        e3 == vfp_set_fpsr(e2, s.hw.reg[HV_REG_FPSR])
        e4 == pstate_write(e3, s.hw.reg[HV_REG_CPSR])
        s1 == [s EXCEPT !.env = e4,
                        !.cpreg_values = [i \in DOMAIN hvf_sreg_match |->
                                            s.hw.sysreg[hvf_sreg_match[i].reg]]]
    IN assert_hvf_ok(s, "hv_vcpu_get_reg", assert_hvf_ok(s, "hv_vcpu_get_sys_reg",
           write_list_to_cpustate(Ev(hw_read(s1), <<"pull">>))))

\* the three push loops of hvf_put_registers, each over the first n rows of its table
put_reg_loop(s, n) ==
    [r \in HvRegs |->
        IF \E i \in 1..n : hvf_reg_match[i].reg = r
            THEN LET i == CHOOSE j \in 1..n : hvf_reg_match[j].reg = r
                 IN EnvField(s.env, hvf_reg_match[i].offset)
        ELSE s.hw.reg[r]]

put_fpreg_loop(s, n) ==
    [q \in QIdx |->
        IF \E i \in 1..n : hvf_fpreg_match[i].reg = q
            THEN LET i == CHOOSE j \in 1..n : hvf_fpreg_match[j].reg = q
                 IN EnvField(s.env, hvf_fpreg_match[i].offset)
        ELSE s.hw.simd[q]]

put_sreg_loop(s, n) ==
    [r \in HvSysRegs |->
        IF \E i \in 1..n : hvf_sreg_match[i].reg = r
            THEN LET i == CHOOSE j \in 1..n : hvf_sreg_match[j].reg = r
                 IN s.cpreg_values[i]
        ELSE s.hw.sysreg[r]]

\* hvf_put_registers, the last loop: the register cache -> the system registers
put_sregs(s) == [s EXCEPT !.hw.sysreg = put_sreg_loop(s, Len(hvf_sreg_match))]

\* hvf_put_registers: emulated state -> hardware
hvf_put_registers(s) ==
    assert_hvf_ok(s, "hv_vcpu_set_reg", assert_hvf_ok(s, "hv_vcpu_set_sys_reg",
        put_sregs(write_cpustate_to_list(
            [Ev(s, <<"push">>) EXCEPT
                      !.hw.reg = [put_reg_loop(s, Len(hvf_reg_match)) EXCEPT
                                     ![HV_REG_FPCR] = vfp_get_fpcr(s.env),
                                     ![HV_REG_FPSR] = vfp_get_fpsr(s.env),
                                     ![HV_REG_CPSR] = pstate_read(s.env)],
                      !.hw.simd = put_fpreg_loop(s, Len(hvf_fpreg_match))]))))

\* flush_cpu_state: push once if dirty
flush_cpu_state(s) ==
    IF s.vcpu_dirty THEN [hvf_put_registers(s) EXCEPT !.vcpu_dirty = FALSE] ELSE s

\* hv_vcpu_set_reg / hv_vcpu_get_reg on a register the model keeps
hv_vcpu_set_reg(s, r, val) ==
    IF r \in HvRegs THEN [s EXCEPT !.hw.reg[r] = val] ELSE s

hv_vcpu_get_reg(s, r) == IF r \in HvRegs THEN s.hw.reg[r] ELSE {}

\* a mutant: the write goes to hardware without the pending push being made first
hvf_set_reg_noflush(s, rt, val) ==
    IF rt < 31 THEN hv_vcpu_set_reg(s, HV_REG_X0 + rt, val) ELSE s

\* hvf_set_reg after its flush
set_reg_flushed(s, rt, val) ==
    IF rt < 31 THEN hv_vcpu_set_reg(s, HV_REG_X0 + rt, val) ELSE s

\* hvf_set_reg
hvf_set_reg(s, rt, val) == set_reg_flushed(flush_cpu_state(s), rt, val)

\* hvf_get_reg after its flush: the value read and the state
get_reg_flushed(s, rt) ==
    [val |-> IF rt < 31 THEN hv_vcpu_get_reg(s, HV_REG_X0 + rt) ELSE {},
     st |-> IF rt < 31 THEN hw_read(s) ELSE s]

\* hvf_get_reg
hvf_get_reg(s, rt) == get_reg_flushed(flush_cpu_state(s), rt)

\* cpu_synchronize_state: pull once and mark the emulated state as the newer one
cpu_synchronize_state(s) ==
    IF s.vcpu_dirty THEN s ELSE [hvf_get_registers(s) EXCEPT !.vcpu_dirty = TRUE]

(***************************************************************************)
(* Constants of the headers hvf.c includes.                                *)
(***************************************************************************)
EXCP_HLT == 65537
EXCP_DEBUG == 65538

EC_WFX_TRAP == 1
EC_AA64_HVC == 22
EC_AA64_SMC == 23
EC_SYSTEMREGISTERTRAP == 24
EC_DATAABORT == 36
EC_SOFTWARESTEP == 50
EC_AA64_BKPT == 60

ARM_EL_EC_SHIFT == 26
ARM_EL_ISV == {24}
WFX_IS_WFE == {0}

\* syn_uncategorized(): EC_UNCATEGORIZED with the IL bit
syn_uncategorized == {25}

TMR_CTL_ENABLE == {0}
TMR_CTL_IMASK == {1}
TMR_CTL_ISTATUS == {2}

ICC_CTLR_EL1_PRIBITS_SHIFT == 8
ICC_CTLR_EL1_PRIBITS_MASK == {8, 9, 10}

PSCI_ON == 0
PSCI_OFF == 1

\* function identifiers and return codes of the PSCI interface
QEMU_PSCI_0_1_FN_CPU_SUSPEND == Hex(<<9, 5, 12, 1, 11, 10, 5, 14>>)
QEMU_PSCI_0_1_FN_CPU_OFF == Hex(<<9, 5, 12, 1, 11, 10, 5, 15>>)
QEMU_PSCI_0_1_FN_CPU_ON == Hex(<<9, 5, 12, 1, 11, 10, 6, 0>>)
QEMU_PSCI_0_1_FN_MIGRATE == Hex(<<9, 5, 12, 1, 11, 10, 6, 1>>)
QEMU_PSCI_0_2_FN_PSCI_VERSION == Hex(<<8, 4, 0, 0, 0, 0, 0, 0>>)
QEMU_PSCI_0_2_FN_CPU_SUSPEND == Hex(<<8, 4, 0, 0, 0, 0, 0, 1>>)
QEMU_PSCI_0_2_FN_CPU_OFF == Hex(<<8, 4, 0, 0, 0, 0, 0, 2>>)
QEMU_PSCI_0_2_FN_CPU_ON == Hex(<<8, 4, 0, 0, 0, 0, 0, 3>>)
QEMU_PSCI_0_2_FN_AFFINITY_INFO == Hex(<<8, 4, 0, 0, 0, 0, 0, 4>>)
QEMU_PSCI_0_2_FN_MIGRATE == Hex(<<8, 4, 0, 0, 0, 0, 0, 5>>)
QEMU_PSCI_0_2_FN_MIGRATE_INFO_TYPE == Hex(<<8, 4, 0, 0, 0, 0, 0, 6>>)
QEMU_PSCI_0_2_FN_SYSTEM_OFF == Hex(<<8, 4, 0, 0, 0, 0, 0, 8>>)
QEMU_PSCI_0_2_FN_SYSTEM_RESET == Hex(<<8, 4, 0, 0, 0, 0, 0, 9>>)
QEMU_PSCI_0_2_FN64_CPU_SUSPEND == Hex(<<12, 4, 0, 0, 0, 0, 0, 1>>)
QEMU_PSCI_0_2_FN64_CPU_ON == Hex(<<12, 4, 0, 0, 0, 0, 0, 3>>)
QEMU_PSCI_0_2_FN64_AFFINITY_INFO == Hex(<<12, 4, 0, 0, 0, 0, 0, 4>>)
QEMU_PSCI_0_2_RET_VERSION_0_2 == 2
QEMU_PSCI_0_2_RET_TOS_MIGRATION_NOT_REQUIRED == 2
QEMU_PSCI_RET_NOT_SUPPORTED == -1
QEMU_PSCI_RET_INVALID_PARAMS == -2
QEMU_PSCI_RET_ALREADY_ON == -4
\* arm_set_cpu_off on a CPU that is off already
QEMU_ARM_POWERCTL_IS_OFF == -5

QEMU_SMCCC_TC_WINDOWS10_BOOT == Hex(<<12, 3, 0, 0, 0, 0, 0, 1>>)

\* the SYSREG() encoding of a trapped system register, as found in the syndrome
SYSREG(op0, op1, crn, crm, op2) ==
    op0 * (2^20) + op2 * (2^17) + op1 * (2^14) + crn * (2^10) + crm * 2
SYSREG_MASK == BitsOf(SYSREG(3, 7, 15, 15, 7))
SYSREG_CNTPCT_EL0 == SYSREG(3, 3, 14, 0, 1)
SYSREG_CNTP_CTL_EL0 == SYSREG(3, 3, 14, 2, 1)
SYSREG_PMCCNTR_EL0 == SYSREG(3, 3, 9, 13, 0)
SYSREG_OSLAR_EL1 == SYSREG(2, 0, 1, 0, 4)
SYSREG_ICC_CTLR_EL1 == SYSREG(3, 0, 12, 12, 4)
SYSREG_ICC_EOIR0_EL1 == SYSREG(3, 0, 12, 8, 1)
SYSREG_ICC_EOIR1_EL1 == SYSREG(3, 0, 12, 12, 1)
\* the other ICC registers, forwarded in both directions
SYSREG_ICC_OTHER ==
    { SYSREG(3, 0, 12, 8, 4), SYSREG(3, 0, 12, 8, 5), SYSREG(3, 0, 12, 8, 6),
      SYSREG(3, 0, 12, 8, 7), SYSREG(3, 0, 12, 9, 0), SYSREG(3, 0, 12, 9, 1),
      SYSREG(3, 0, 12, 9, 2), SYSREG(3, 0, 12, 9, 3), SYSREG(3, 0, 12, 11, 6),
      SYSREG(3, 0, 12, 8, 3), SYSREG(3, 0, 12, 12, 3), SYSREG(3, 0, 12, 11, 1),
      SYSREG(3, 0, 12, 8, 2), SYSREG(3, 0, 12, 12, 2), SYSREG(3, 0, 12, 8, 0),
      SYSREG(3, 0, 12, 12, 0), SYSREG(3, 0, 12, 12, 6), SYSREG(3, 0, 12, 12, 7),
      SYSREG(3, 0, 4, 6, 0), SYSREG(3, 0, 12, 11, 7), SYSREG(3, 0, 12, 11, 5),
      SYSREG(3, 0, 12, 12, 5) }
SYSREG_ICC_PMR_EL1 == SYSREG(3, 0, 4, 6, 0)

\* counter frequency of the guest (ARMCPU.gt_cntfrq_hz), in ticks per second
gt_cntfrq_hz == 1000
gt_cntfrq_period_ns == 1000000000 \div gt_cntfrq_hz

(***************************************************************************)
(* Calls into the accelerator and into the rest of the emulator.           *)
(***************************************************************************)
\* a call the running operation made, in order

hv_vcpu_get_sys_reg(s, r) == s.hw.sysreg[r]
hv_vcpu_set_sys_reg(s, r, val) == [s EXCEPT !.hw.sysreg[r] = val]
hv_vcpu_set_vtimer_mask(s, m) == [s EXCEPT !.hw.vtimer_mask = m]
hv_vcpu_set_pending_interrupt(s, type) ==
    Ev([s EXCEPT !.hw.pending = @ \cup {type}], <<"set_pending", type>>)

\* qemu_set_irq on gt_timer_outputs[GTIMER_VIRT]
qemu_set_irq_vtimer(s, level) == [s EXCEPT !.machine.vtimer_irq = level]

qemu_mutex_unlock_iothread(s) == Ev([s EXCEPT !.machine.iothread_locked = FALSE], <<"unlock">>)
qemu_mutex_lock_iothread(s) == Ev([s EXCEPT !.machine.iothread_locked = TRUE], <<"lock">>)

MemAddrs == 0..(MaxPhysAddr + 7)

\* address_space_write: the first len bytes of val, lowest byte first
address_space_write(s, pa, val, len) ==
    [s EXCEPT !.mem = [a \in MemAddrs |->
        IF pa <= a /\ a < pa + len
            THEN {b - 8 * (a - pa) : b \in val \cap ((8 * (a - pa))..(8 * (a - pa) + 7))}
        ELSE s.mem[a]]]

\* address_space_read into a zeroed uint64_t
address_space_read(s, pa, len) ==
    UNION {{b + 8 * i : b \in s.mem[pa + i]} : i \in 0..(len - 1)}

\* arm_get_cpu_by_id: the CPUs of the machine by affinity value
arm_get_cpu_by_id(s, mpidr) == {c \in DOMAIN s.machine.power_state : BitsOf(c) = mpidr}

\* arm_set_cpu_off, its queued work included: the CPU is marked off and halted
arm_set_cpu_off(s, mpidr) ==
    IF s.machine.power_state[mpidr] = PSCI_OFF
        THEN [st |-> s, ret |-> QEMU_ARM_POWERCTL_IS_OFF]
    ELSE [st |-> Ev([s EXCEPT !.machine.power_state[mpidr] = PSCI_OFF,
                              !.cpu.halted = IF mpidr = s.cpu.mp_affinity THEN TRUE ELSE @],
                    <<"cpu_off">>),
          ret |-> 0]

\* arm_set_cpu_on on the CPU c, its queued work included
set_cpu_on(s, c) ==
    IF s.machine.power_state[c] # PSCI_OFF
        THEN [st |-> s, ret |-> QEMU_PSCI_RET_ALREADY_ON]
    ELSE [st |-> Ev([s EXCEPT !.machine.power_state[c] = PSCI_ON,
                              !.cpu.halted = IF c = s.cpu.mp_affinity THEN FALSE ELSE @],
                    <<"cpu_on">>),
          ret |-> 0]

\* arm_set_cpu_on
arm_set_cpu_on(s, mpidr) ==
    IF arm_get_cpu_by_id(s, mpidr) = {}
        THEN [st |-> s, ret |-> QEMU_PSCI_RET_INVALID_PARAMS]
    ELSE set_cpu_on(s, CHOOSE c \in arm_get_cpu_by_id(s, mpidr) : TRUE)

qemu_system_reset_request(s) == Ev([s EXCEPT !.machine.reset_requested = TRUE], <<"reset_request">>)
qemu_system_shutdown_request(s) ==
    Ev([s EXCEPT !.machine.shutdown_requested = TRUE], <<"shutdown_request">>)

(***************************************************************************)
(* hvf.c, from hvf_raise_exception to hvf_sync_vtimer.                     *)
(***************************************************************************)
\* hvf_raise_exception(env, EXCP_UDEF, syndrome): entry to EL1 with SP_EL1
\* a mutant: the return address is not saved
hvf_raise_exception_no_elr(s, syndrome) ==
    LET e == s.env
        e1 == [e EXCEPT !.cp["ESR_EL1"] = syndrome, !.cp["SPSR_EL1"] = pstate_read(e)]
    IN [s EXCEPT !.env = [pstate_write(e1, PSTATE_DAIF \cup {0, 2}) EXCEPT
                              !.pc = e.cp["VBAR_EL1"]]]

hvf_raise_exception(s, syndrome) ==
    LET e == s.env
        old_mode == pstate_read(e)
        new_mode == {0, 2}
        addr == e.cp["VBAR_EL1"]
        e1 == [e EXCEPT !.cp["ESR_EL1"] = syndrome,
                        !.cp["ELR_EL1"] = e.pc,
                        !.cp["SPSR_EL1"] = old_mode]
        e2 == pstate_write(e1, PSTATE_DAIF \cup new_mode)
    IN [s EXCEPT !.env = [e2 EXCEPT !.pc = addr]]

\* hvf_sysreg_read_cp: what the coprocessor-register emulation returns
hvf_sysreg_read_cp(s, reg) == s.in.cp_read

\* hvf_sysreg_write_cp: the value is handed to the coprocessor-register emulation
hvf_sysreg_write_cp(s, reg, val) == Ev(s, <<"cp_write", reg, val>>)

\* a mutant: the calling CPU is not powered off
hvf_psci_cpu_off_no_park(s) == [st |-> s, ret |-> 0]

\* assert(ret == QEMU_ARM_POWERCTL_RET_SUCCESS); return 0
cpu_off_assert(r) == [st |-> [r.st EXCEPT !.aborted = @ \/ (r.ret # 0)], ret |-> 0]

\* hvf_psci_cpu_off
hvf_psci_cpu_off(s) == cpu_off_assert(arm_set_cpu_off(s, s.cpu.mp_affinity))

\* hvf_wait_for_ipi
\* a mutant: the wait is made with the lock held
hvf_wait_for_ipi_locked(s, ts) ==
    Ev([s EXCEPT !.cpu.thread_kicked = FALSE, !.wait = ts], <<"pselect">>)

hvf_wait_for_ipi(s, ts) ==
    LET s1 == [s EXCEPT !.cpu.thread_kicked = FALSE]
        s2 == qemu_mutex_unlock_iothread(s1)
        s3 == Ev([s2 EXCEPT !.wait = ts], <<"pselect">>)
    IN qemu_mutex_lock_iothread(s3)

\* a * n / f in unsigned arithmetic, computed without a wide intermediate product
MulDiv(a, n, f) == a * (n \div f) + (a * (n % f)) \div f

\* the int64_t a timer word stands for
ToSigned(u) == IF u >= 2^(TimerBits - 1) THEN u - 2^TimerBits ELSE u

\* hvf_wfi from the computation of the timeout on
wfi_sleep(s, seconds, nanos) ==
    IF seconds = 0 /\ nanos < 2000000 THEN s
    ELSE hvf_wait_for_ipi(s, [kind |-> "timeout", sec |-> seconds, nsec |-> nanos])

\* hvf_wfi from the signed difference of compare value and host counter on
wfi_ticks(s, ticks_to_sleep) ==
    IF ticks_to_sleep < 0 THEN s
    ELSE wfi_sleep(s, ticks_to_sleep \div gt_cntfrq_hz,
                   MulDiv(ticks_to_sleep - gt_cntfrq_hz * (ticks_to_sleep \div gt_cntfrq_hz),
                          1000000000, gt_cntfrq_hz))

\* hvf_wfi from the read of the timer control on
wfi_timer(s, ctl) ==
    IF ~(0 \in ctl) \/ (1 \in ctl)
        THEN hvf_wait_for_ipi(s, [kind |-> "forever", sec |-> 0, nsec |-> 0])
    ELSE wfi_ticks(hw_read(s), ToSigned((hv_vcpu_get_sys_reg(s, "HV_SYS_REG_CNTV_CVAL_EL0")
                                - s.in.t_wfi) % (2^TimerBits)))

\* hvf_wfi after its printf
wfi_entered(s) ==
    IF s.cpu.interrupt_request \cap {"CPU_INTERRUPT_HARD", "CPU_INTERRUPT_FIQ"} # {} THEN s
    ELSE wfi_timer(hw_read(s), hv_vcpu_get_sys_reg(s, "HV_SYS_REG_CNTV_CTL_EL0"))

\* hvf_wfi
hvf_wfi(s) == wfi_entered(Ev(s, <<"wfi">>))

\* a mutant: the affinity level is not looked at
psci_affinity_info_any_level(s, param) ==
    IF arm_get_cpu_by_id(s, param[1]) = {} THEN QEMU_PSCI_RET_INVALID_PARAMS
    ELSE s.machine.power_state[CHOOSE c \in arm_get_cpu_by_id(s, param[1]) : TRUE]

\* hvf_handle_psci_call, case AFFINITY_INFO: the value of ret
psci_affinity_info(s, param) ==
    IF param[2] = {}
        THEN IF arm_get_cpu_by_id(s, param[1]) = {} THEN QEMU_PSCI_RET_INVALID_PARAMS
             ELSE s.machine.power_state[CHOOSE c \in arm_get_cpu_by_id(s, param[1]) : TRUE]
    ELSE 0

\* a mutant: the power-state parameter is not validated
psci_cpu_suspend_unchecked(s, param) ==
    [st |-> hvf_wfi([s EXCEPT !.env.xregs[0] = {}]), ret |-> 0]

\* hvf_handle_psci_call, case CPU_SUSPEND: the state after and the value of ret
psci_cpu_suspend(s, param) ==
    IF param[1] \cap Hex(<<15, 15, 15, 14, 0, 0, 0, 0>>) # {}
        THEN [st |-> s, ret |-> QEMU_PSCI_RET_INVALID_PARAMS]
    ELSE [st |-> hvf_wfi([s EXCEPT !.env.xregs[0] = {}]), ret |-> 0]

\* env->xregs[0] = ret; return 0
psci_done(r) == [st |-> [r.st EXCEPT !.env.xregs[0] = Int32ToU64(r.ret)], ret |-> 0]

\* switch (param[0])
psci_switch(s, param) ==
    CASE param[0] = QEMU_PSCI_0_2_FN_PSCI_VERSION ->
            psci_done([st |-> s, ret |-> QEMU_PSCI_0_2_RET_VERSION_0_2])
      [] param[0] = QEMU_PSCI_0_2_FN_MIGRATE_INFO_TYPE ->
            psci_done([st |-> s, ret |-> QEMU_PSCI_0_2_RET_TOS_MIGRATION_NOT_REQUIRED])
      [] param[0] \in {QEMU_PSCI_0_2_FN_AFFINITY_INFO, QEMU_PSCI_0_2_FN64_AFFINITY_INFO} ->
            psci_done([st |-> s, ret |-> psci_affinity_info(s, param)])
      [] param[0] = QEMU_PSCI_0_2_FN_SYSTEM_RESET ->
            hvf_psci_cpu_off(qemu_system_reset_request(s))
      [] param[0] = QEMU_PSCI_0_2_FN_SYSTEM_OFF ->
            hvf_psci_cpu_off(qemu_system_shutdown_request(s))
      [] param[0] \in {QEMU_PSCI_0_1_FN_CPU_ON, QEMU_PSCI_0_2_FN_CPU_ON,
                       QEMU_PSCI_0_2_FN64_CPU_ON} ->
            psci_done(arm_set_cpu_on(s, param[1]))
      [] param[0] \in {QEMU_PSCI_0_1_FN_CPU_OFF, QEMU_PSCI_0_2_FN_CPU_OFF} ->
            hvf_psci_cpu_off(s)
      [] param[0] \in {QEMU_PSCI_0_1_FN_CPU_SUSPEND, QEMU_PSCI_0_2_FN_CPU_SUSPEND,
                       QEMU_PSCI_0_2_FN64_CPU_SUSPEND} ->
            psci_done(psci_cpu_suspend(s, param))
      [] param[0] \in {QEMU_PSCI_0_1_FN_MIGRATE, QEMU_PSCI_0_2_FN_MIGRATE} ->
            psci_done([st |-> s, ret |-> QEMU_PSCI_RET_NOT_SUPPORTED])
      [] OTHER -> [st |-> s, ret |-> 1]

\* hvf_handle_psci_call: 0 in ret when the call was a PSCI call
hvf_handle_psci_call(s) == psci_switch(s, s.env.xregs)

\* a mutant: the value of the emulation is delivered as it is
icc_ctlr_passthrough(val) == val

\* the clamp of the ICC_CTLR_EL1 value read
icc_ctlr_pribits(val) ==
    (val \ ICC_CTLR_EL1_PRIBITS_MASK) \cup {b + ICC_CTLR_EL1_PRIBITS_SHIFT : b \in BitsOf(4)}

\* hvf_sysreg_read: the value read and the state after
hvf_sysreg_read(s, reg) ==
    CASE reg = SYSREG_CNTPCT_EL0 ->
            [val |-> BitsOf(s.in.vclock \div gt_cntfrq_period_ns), st |-> s]
      [] reg = SYSREG_PMCCNTR_EL0 -> [val |-> BitsOf(s.in.vclock), st |-> s]
      [] reg \in SYSREG_ICC_OTHER \cup {SYSREG_ICC_EOIR0_EL1, SYSREG_ICC_EOIR1_EL1} ->
            [val |-> hvf_sysreg_read_cp(s, reg), st |-> s]
      [] reg = SYSREG_ICC_CTLR_EL1 ->
            [val |-> icc_ctlr_pribits(hvf_sysreg_read_cp(s, reg)), st |-> s]
      [] OTHER -> [val |-> {}, st |-> cpu_synchronize_state(s)]

\* hv_vcpu_set_vtimer_mask(fd, false), its status not looked at
unmask_vtimer(s) ==
    status_ignored(s, "hv_vcpu_set_vtimer_mask", hv_vcpu_set_vtimer_mask(s, FALSE))

\* a mutant: every written value is handed to the coprocessor-register emulation
hvf_sysreg_write_all_forwarded(s, reg, val) == hvf_sysreg_write_cp(s, reg, val)

\* a mutant: the end-of-interrupt registers are written like the other ICC registers
hvf_sysreg_write_eoi_plain(s, reg, val) ==
    CASE reg \in {SYSREG_CNTPCT_EL0, SYSREG_CNTP_CTL_EL0, SYSREG_OSLAR_EL1} -> s
      [] reg \in SYSREG_ICC_OTHER \cup {SYSREG_ICC_CTLR_EL1, SYSREG_ICC_EOIR0_EL1,
                                        SYSREG_ICC_EOIR1_EL1} -> hvf_sysreg_write_cp(s, reg, val)
      [] OTHER -> cpu_synchronize_state(s)

\* hvf_sysreg_write
hvf_sysreg_write(s, reg, val) ==
    CASE reg \in {SYSREG_CNTPCT_EL0, SYSREG_CNTP_CTL_EL0, SYSREG_OSLAR_EL1} -> s
      [] reg \in SYSREG_ICC_OTHER \cup {SYSREG_ICC_CTLR_EL1} -> hvf_sysreg_write_cp(s, reg, val)
      [] reg \in {SYSREG_ICC_EOIR0_EL1, SYSREG_ICC_EOIR1_EL1} ->
            unmask_vtimer(qemu_set_irq_vtimer(hvf_sysreg_write_cp(s, reg, val), FALSE))
      [] OTHER -> cpu_synchronize_state(s)

\* hvf_inject_interrupts
inject_irq(s) ==
    IF "CPU_INTERRUPT_HARD" \in s.cpu.interrupt_request
        THEN status_ignored(s, "hv_vcpu_set_pending_interrupt",
                            hv_vcpu_set_pending_interrupt(s, "HV_INTERRUPT_TYPE_IRQ"))
    ELSE s

inject_fiq(s) ==
    IF "CPU_INTERRUPT_FIQ" \in s.cpu.interrupt_request
        THEN status_ignored(s, "hv_vcpu_set_pending_interrupt",
                            hv_vcpu_set_pending_interrupt(s, "HV_INTERRUPT_TYPE_FIQ"))
    ELSE s

\* a mutant: only the IRQ line is looked at
hvf_inject_interrupts_irq_only(s) ==
    IF s.aborted THEN s ELSE inject_irq(Ev(s, <<"inject_interrupts">>))

hvf_inject_interrupts(s) ==
    IF s.aborted THEN s ELSE inject_irq(inject_fiq(Ev(s, <<"inject_interrupts">>)))

\* a mutant: the line follows the timer but the timer is never unmasked
sync_vtimer_irq_keeps_mask(s, irq_state) == qemu_set_irq_vtimer(s, irq_state)

\* hvf_sync_vtimer from the computation of irq_state on
sync_vtimer_irq(s, irq_state) ==
    IF ~irq_state
        THEN [unmask_vtimer(qemu_set_irq_vtimer(s, irq_state))
                 EXCEPT !.cpu.vtimer_masked = FALSE]
    ELSE qemu_set_irq_vtimer(s, irq_state)

\* hvf_sync_vtimer
hvf_sync_vtimer(s) ==
    IF s.aborted \/ ~s.cpu.vtimer_masked THEN s
    ELSE assert_hvf_ok(s, "hv_vcpu_get_sys_reg",
             sync_vtimer_irq(hw_read(Ev(s, <<"sync_vtimer">>)), (hv_vcpu_get_sys_reg(s, "HV_SYS_REG_CNTV_CTL_EL0")
                                    \cap (TMR_CTL_ENABLE \cup TMR_CTL_IMASK \cup TMR_CTL_ISTATUS))
                                = (TMR_CTL_ENABLE \cup TMR_CTL_ISTATUS)))

\* hvf_invoke_set_guest_debug
set_guest_debug_ok(s) ==
    [s EXCEPT !.cpu.enable_debug = s.cpu.singlestep_enabled \/ s.cpu.enable_debug,
              !.hw.trap_debug = s.cpu.singlestep_enabled \/ s.cpu.enable_debug,
              !.hw.sysreg["HV_SYS_REG_MDSCR_EL1"] =
                  IF s.cpu.singlestep_enabled THEN @ \cup {0} ELSE @ \ {0},
              !.hw.reg[HV_REG_CPSR] =
                  IF s.cpu.singlestep_enabled THEN @ \cup PSTATE_SS ELSE @ \ PSTATE_SS]

\* hvf_invoke_set_guest_debug: every call of it is checked, in this order
hvf_invoke_set_guest_debug(s) ==
    assert_hvf_ok(s, "hv_vcpu_set_trap_debug_exceptions",
        assert_hvf_ok(s, "hv_vcpu_get_sys_reg", assert_hvf_ok(s, "hv_vcpu_set_sys_reg",
            assert_hvf_ok(s, "hv_vcpu_get_reg", assert_hvf_ok(s, "hv_vcpu_set_reg",
                set_guest_debug_ok(hw_read(s)))))))

(***************************************************************************)
(* hvf_vcpu_exec.                                                          *)
(***************************************************************************)
\* the hardware state at the exit is noted
at_exit(s) == Ev([s EXCEPT !.hw_exit = s.hw, !.resumed = TRUE], <<"run">>)

\* hv_vcpu_run: the guest runs (g is what it does to the registers), the pending
\* interrupt lines are consumed, and the vCPU exits with the record ex; the
\* framework masks the virtual timer when it reports the timer as activated
hv_vcpu_run(s, g, ex) ==
    at_exit([s EXCEPT
        !.at_run = [dirty |-> s.vcpu_dirty, pending |-> s.hw.pending, cpu |-> s.cpu,
                    vtimer_irq |-> s.machine.vtimer_irq],
        !.hw.reg = [r \in HvRegs |-> IF r \in DOMAIN g.reg THEN g.reg[r] ELSE @[r]],
        !.hw.simd = [q \in QIdx |-> IF q \in DOMAIN g.simd THEN g.simd[q] ELSE @[q]],
        !.hw.sysreg = [r \in HvSysRegs |-> IF r \in DOMAIN g.sysreg THEN g.sysreg[r] ELSE @[r]],
        !.hw.pending = {},
        !.hw.vtimer_mask = IF ex.reason = "HV_EXIT_REASON_VTIMER_ACTIVATED" THEN TRUE ELSE @])

\* a store: the register read by hvf_get_reg goes to memory
data_abort_store(g, pa, len) ==
    [address_space_write(g.st, pa, g.val, len) EXCEPT !.advance_pc = TRUE]

\* a mutant: every access is made with four bytes
handle_data_abort_word(s, ex) ==
    IF ex.syndrome \cap ARM_EL_ISV = {} THEN [s EXCEPT !.aborted = TRUE]
    ELSE IF Field(ex.syndrome, 6, 1) = 1
        THEN data_abort_store(hvf_get_reg(s, Field(ex.syndrome, 16, 5)),
                              ex.physical_address, 4)
    ELSE [hvf_set_reg(s, Field(ex.syndrome, 16, 5),
                      address_space_read(s, ex.physical_address, 4))
             EXCEPT !.advance_pc = TRUE]

\* case EC_DATAABORT, after assert(isv)
data_abort_access(s, pa, iswrite, len, srt) ==
    IF iswrite THEN data_abort_store(hvf_get_reg(s, srt), pa, len)
    ELSE [hvf_set_reg(s, srt, address_space_read(s, pa, len)) EXCEPT !.advance_pc = TRUE]

\* a mutant: the access is emulated whether or not the syndrome is valid
handle_data_abort_unasserted(s, ex) ==
    data_abort_access(s, ex.physical_address, Field(ex.syndrome, 6, 1) = 1,
                      2^Field(ex.syndrome, 22, 2), Field(ex.syndrome, 16, 5))

\* case EC_DATAABORT
handle_data_abort(s, ex) ==
    IF ex.syndrome \cap ARM_EL_ISV = {} THEN [s EXCEPT !.aborted = TRUE]
    ELSE data_abort_access(s, ex.physical_address, Field(ex.syndrome, 6, 1) = 1,
                           2^Field(ex.syndrome, 22, 2), Field(ex.syndrome, 16, 5))

\* a trapped read: the value goes to register rt
sysreg_trap_read(r, rt) == hvf_set_reg(r.st, rt, r.val)

\* a trapped write: the value of register rt goes to the register
sysreg_trap_write(g, reg) == hvf_sysreg_write(g.st, reg, g.val)

\* case EC_SYSTEMREGISTERTRAP, the fields of the syndrome decoded
sysreg_trap(s, isread, rt, reg) ==
    [(IF isread THEN sysreg_trap_read(hvf_sysreg_read(s, reg), rt)
      ELSE sysreg_trap_write(hvf_get_reg(s, rt), reg))
        EXCEPT !.advance_pc = TRUE]

\* case EC_SYSTEMREGISTERTRAP
handle_sysreg_trap(s, ex) ==
    sysreg_trap(s, Field(ex.syndrome, 0, 1) = 1, Field(ex.syndrome, 5, 5),
                NatOf(ex.syndrome \cap SYSREG_MASK))

\* a mutant: wait-for-event goes to the idle scheduler like wait-for-interrupt
handle_wfx_trap_wfe_waits(s, ex) == hvf_wfi([s EXCEPT !.advance_pc = TRUE])

\* case EC_WFX_TRAP
handle_wfx_trap(s, ex) ==
    IF ex.syndrome \cap WFX_IS_WFE = {} THEN hvf_wfi([s EXCEPT !.advance_pc = TRUE])
    ELSE [s EXCEPT !.advance_pc = TRUE]

\* the CPU service calls of case EC_AA64_HVC
cpu_service_call(s, function_num) ==
    IF function_num = 1 THEN [s EXCEPT !.env.xregs[2] = {}, !.env.xregs[3] = {}] ELSE s

\* case EC_AA64_HVC, after hvf_handle_psci_call
hvc_after_psci(s) ==
    IF s.psci = 0 THEN s
    ELSE IF Hex(<<12, 1, 0, 0, 0, 0, 0, 0>>) \subseteq s.env.xregs[0]
        THEN cpu_service_call(s, Field(s.env.xregs[0], 0, 16))
    ELSE hvf_raise_exception(s, syn_uncategorized)

\* the value hvf_handle_psci_call returned is noted
psci_returned(r) == [r.st EXCEPT !.psci = r.ret]

\* case EC_AA64_HVC
handle_hvc(s) == hvc_after_psci(psci_returned(hvf_handle_psci_call(cpu_synchronize_state(s))))

\* a mutant: a PSCI call made with SMC does not step over the instruction
smc_after_psci_no_advance(s) ==
    IF s.psci = 0 THEN s
    ELSE IF s.env.xregs[0] = QEMU_SMCCC_TC_WINDOWS10_BOOT
        THEN [s EXCEPT !.env.xregs[0] = Int32ToU64(-1), !.advance_pc = TRUE]
    ELSE hvf_raise_exception(s, syn_uncategorized)

\* case EC_AA64_SMC, after hvf_handle_psci_call
smc_after_psci(s) ==
    IF s.psci = 0 THEN [s EXCEPT !.advance_pc = TRUE]
    ELSE IF s.env.xregs[0] = QEMU_SMCCC_TC_WINDOWS10_BOOT
        THEN [s EXCEPT !.env.xregs[0] = Int32ToU64(-1), !.advance_pc = TRUE]
    ELSE hvf_raise_exception(s, syn_uncategorized)

\* case EC_AA64_SMC
handle_smc(s) == smc_after_psci(psci_returned(hvf_handle_psci_call(cpu_synchronize_state(s))))

\* a mutant: the debug exits step over the instruction like the emulated ones
handle_debug_exit_advance(s) ==
    [cpu_synchronize_state(s) EXCEPT !.ret = EXCP_DEBUG, !.advance_pc = TRUE]

\* case EC_SOFTWARESTEP and case EC_AA64_BKPT
handle_debug_exit(s) == [cpu_synchronize_state(s) EXCEPT !.ret = EXCP_DEBUG]

\* the default case: the exit is logged with error_report
handle_unhandled_exit(s) == Ev(cpu_synchronize_state(s), <<"error_report">>)

\* switch (ec)
exit_switch(s, ex, ec) ==
    CASE ec = EC_DATAABORT -> handle_data_abort(s, ex)
      [] ec = EC_SYSTEMREGISTERTRAP -> handle_sysreg_trap(s, ex)
      [] ec = EC_WFX_TRAP -> handle_wfx_trap(s, ex)
      [] ec = EC_AA64_HVC -> handle_hvc(s)
      [] ec = EC_AA64_SMC -> handle_smc(s)
      [] ec \in {EC_SOFTWARESTEP, EC_AA64_BKPT} -> handle_debug_exit(s)
      [] OTHER -> handle_unhandled_exit(s)

\* syn_get_ec and the switch
exit_dispatch(s, ex) ==
    exit_switch(Ev(s, <<"dispatch">>), ex, Field(ex.syndrome, ARM_EL_EC_SHIFT, 6))

\* a mutant: the program counter is advanced without the pending push being made
advance_pc_step_noflush(s) ==
    hv_vcpu_set_reg(s, HV_REG_PC, AddPow2(hv_vcpu_get_reg(s, HV_REG_PC), 2))

\* pc += 4 on the hardware
pc_plus_4(s) ==
    hv_vcpu_set_reg(hw_read(s), HV_REG_PC, AddPow2(hv_vcpu_get_reg(s, HV_REG_PC), 2))

\* if (advance_pc): push, then PC := PC + 4 on the hardware
advance_pc_step(s) == pc_plus_4(flush_cpu_state(s))

\* the adjustment of the virtual-timer offset by the time spent on the host
adjust_vtimer_offset(s) ==
    IF ~s.aborted /\ s.machine.exit_timestamp # 0
        THEN assert_hvf_ok(s, "hv_vcpu_get_vtimer_offset",
                 assert_hvf_ok(s, "hv_vcpu_set_vtimer_offset",
                     [s EXCEPT !.hw.vtimer_offset =
                         (@ + ((s.in.t_resume - s.machine.exit_timestamp) % (2^TimerBits)))
                             % (2^TimerBits)]))
    ELSE s

\* return res, after the program counter is advanced if the handler asked for it
exec_return(d) ==
    IF d.aborted THEN d
    ELSE IF d.advance_pc THEN advance_pc_step(d)
    ELSE d

\* a mutant: every exit is handed to the exception-class dispatch
exec_exit_all_dispatched(s, ex) == exec_return(exit_dispatch(s, ex))

\* a mutant: a firing of the timer raises the line but is not noted in the flag
exec_exit_flag_unset(s, ex) ==
    CASE ex.reason = "HV_EXIT_REASON_EXCEPTION" -> exec_return(exit_dispatch(s, ex))
      [] ex.reason = "HV_EXIT_REASON_VTIMER_ACTIVATED" -> qemu_set_irq_vtimer(s, TRUE)
      [] ex.reason = "HV_EXIT_REASON_CANCELED" -> s
      [] OTHER -> [s EXCEPT !.aborted = TRUE]

\* hvf_vcpu_exec from the first switch on: the exit reason is classified
exec_exit(s, ex) ==
    CASE ex.reason = "HV_EXIT_REASON_EXCEPTION" -> exec_return(exit_dispatch(s, ex))
      [] ex.reason = "HV_EXIT_REASON_VTIMER_ACTIVATED" ->
            [qemu_set_irq_vtimer(s, TRUE) EXCEPT !.cpu.vtimer_masked = TRUE]
      [] ex.reason = "HV_EXIT_REASON_CANCELED" -> s
      [] OTHER -> [s EXCEPT !.aborted = TRUE]

\* exit_timestamp = mach_absolute_time()
take_exit_timestamp(s) == [s EXCEPT !.machine.exit_timestamp = s.in.t_exit]

\* hvf_vcpu_exec from the release of the lock on
exec_resume(s, g, ex) ==
    IF s.aborted THEN s
    ELSE assert_hvf_ok(qemu_mutex_unlock_iothread(s), "hv_vcpu_run",
             exec_exit(
                 qemu_mutex_lock_iothread(take_exit_timestamp(hv_vcpu_run(
                     qemu_mutex_unlock_iothread(s), g, ex))),
                 ex))

\* a mutant: a halted CPU is run like any other
exec_run_halted(s, g, ex) ==
    IF s.aborted THEN s
    ELSE exec_resume(adjust_vtimer_offset(hvf_invoke_set_guest_debug(s)), g, ex)

\* hvf_vcpu_exec from the halted check on
exec_run(s, g, ex) ==
    IF s.aborted THEN s
    ELSE IF s.cpu.halted THEN [cpu_synchronize_state(s) EXCEPT !.ret = EXCP_HLT]
    ELSE exec_resume(adjust_vtimer_offset(hvf_invoke_set_guest_debug(s)), g, ex)

\* a mutant: hvf_vcpu_exec does not push the emulated state first
hvf_vcpu_exec_noflush(s, g, ex) ==
    exec_run(hvf_inject_interrupts(hvf_sync_vtimer(s)), g, ex)

\* hvf_vcpu_exec: g and ex are what the guest does and how it exits if it is run
hvf_vcpu_exec(s, g, ex) ==
    exec_run(hvf_inject_interrupts(hvf_sync_vtimer(flush_cpu_state(s))), g, ex)

(***************************************************************************)
(* Initial state: the vCPU as hvf_arch_init_vcpu leaves it, the emulated   *)
(* CPU in its reset state (EL1h, interrupts masked) and marked dirty.      *)
(***************************************************************************)
NoExit == [reason |-> "none", syndrome |-> {}, physical_address |-> 0]

ResetEnv ==
    pstate_write([xregs |-> [i \in XIdx |-> {}], pc |-> {}, zregs |-> [i \in QIdx |-> {}],
                  fpscr |-> {}, NF |-> {}, ZF |-> {}, CF |-> {}, VF |-> {}, daif |-> {},
                  btype |-> {}, pstate |-> {},
                  cp |-> [k \in CpKeys |-> IF k = "CNTV_CVAL_EL0" THEN 0 ELSE {}]],
                 {0, 2} \cup PSTATE_DAIF)

FreshHw ==
    [reg |-> [r \in HvRegs |-> {}], simd |-> [q \in QIdx |-> {}],
     sysreg |-> [r \in HvSysRegs |-> IF r = "HV_SYS_REG_CNTV_CVAL_EL0" THEN 0 ELSE {}],
     pending |-> {}, vtimer_mask |-> FALSE, vtimer_offset |-> 0, trap_debug |-> FALSE]

NoMem == [a \in MemAddrs |-> {}]
NoPrev == [op |-> "none", rt |-> -1, val |-> {}, exit |-> NoExit, dirty_pre |-> FALSE]

NoObs ==
    [op |-> "init", rt |-> -1, val |-> {}, rval |-> {}, ret |-> 0, exit |-> NoExit,
     in |-> NoInput, hw_pre |-> FreshHw, env_pre |-> ResetEnv, mem_pre |-> NoMem,
     hw_exit |-> FreshHw, dirty_pre |-> TRUE, trace |-> <<>>, wait |-> NoWait,
     resumed |-> FALSE, psci |-> -1, power_pre |-> PSCI_ON, halted_pre |-> FALSE,
     irq_pre |-> {}, prev |-> NoPrev, at_run |-> NoRun]

Init ==
    /\ hw = FreshHw
    /\ env = ResetEnv
    /\ cpreg_values = [i \in DOMAIN hvf_sreg_match |-> ResetEnv.cp[hvf_sreg_match[i].key]]
    /\ vcpu_dirty = TRUE
    /\ mem = [a \in MemAddrs |-> {}]
    /\ cpu = FreshCpu
    /\ machine = [power_state |-> [c \in 0..(NumCpus - 1) |-> IF c = 0 THEN PSCI_ON ELSE PSCI_OFF],
                  vtimer_irq |-> FALSE, iothread_locked |-> TRUE,
                  reset_requested |-> FALSE, shutdown_requested |-> FALSE,
                  exit_timestamp |-> 0, clock |-> 1,
                  saved_insn |-> {}, bp |-> NoBreakpoints, bp_failed |-> FALSE,
                  host |-> NoHostFeatures, vt |-> TwoVcpus]
    /\ aborted = FALSE
    /\ obs = NoObs
    /\ thread = FreshThread

\* a data abort with a valid syndrome, and its fields
IsDataAbort(ex) ==
    /\ ex.reason = "HV_EXIT_REASON_EXCEPTION"
    /\ Field(ex.syndrome, ARM_EL_EC_SHIFT, 6) = EC_DATAABORT
    /\ ex.syndrome \cap ARM_EL_ISV # {}
AbortIsWrite(ex) == 6 \in ex.syndrome
AbortLen(ex) == 2^Field(ex.syndrome, 22, 2)
AbortSrt(ex) == Field(ex.syndrome, 16, 5)

\* the record of an operation: its arguments and results, the parts of the
\* state it started from that its contract speaks of (the registers for the
\* register transfers, the memory for an emulated access), and the operation
\* before it when that was a write whose read-back is of interest
Observe(op, rt, val, rval, ex, s) ==
    obs' = [op |-> op, rt |-> rt, val |-> val, rval |-> rval, ret |-> s.ret, exit |-> ex,
            in |-> s.in,
            hw_pre |-> IF op = "vcpu_exec" THEN FreshHw ELSE hw,
            env_pre |-> IF op = "vcpu_exec" THEN ResetEnv ELSE env,
            mem_pre |-> IF IsDataAbort(ex) THEN mem ELSE NoMem,
            hw_exit |-> s.hw_exit,
            dirty_pre |-> vcpu_dirty, trace |-> s.trace,
            wait |-> s.wait, resumed |-> s.resumed, psci |-> s.psci,
            power_pre |-> machine.power_state[cpu.mp_affinity],
            halted_pre |-> cpu.halted, irq_pre |-> cpu.interrupt_request,
            at_run |-> s.at_run,
            prev |-> IF \/ obs.op \in {"set_reg", "get_registers"}
                        \/ (obs.resumed /\ IsDataAbort(obs.exit) /\ AbortIsWrite(obs.exit))
                         THEN [op |-> obs.op, rt |-> obs.rt, val |-> obs.val,
                               exit |-> obs.exit, dirty_pre |-> obs.dirty_pre]
                     ELSE NoPrev]

(***************************************************************************)
(* Operations.                                                             *)
(***************************************************************************)
\* the operation ends in the state s
Done(op, rt, val, rval, ex, s) == Commit(s) /\ Observe(op, rt, val, rval, ex, s)

\* an exit handler writes a general-purpose register
SetReg(rt, val) ==
    /\ ~aborted
    /\ Done("set_reg", rt, val, {}, NoExit, hvf_set_reg(Cur, rt, val))

GetRegDone(rt, g) == Done("get_reg", rt, {}, g.val, NoExit, g.st)

\* an exit handler reads a general-purpose register
GetReg(rt) ==
    /\ ~aborted
    /\ GetRegDone(rt, hvf_get_reg(Cur, rt))

\* the accelerator synchronizes the emulated state with the hardware
SyncState ==
    /\ ~aborted
    /\ Done(IF vcpu_dirty THEN "synchronize" ELSE "get_registers", -1, {}, {}, NoExit,
            cpu_synchronize_state(Cur))

\* the accelerator pushes the emulated state (after a reset, after loading a state)
PushState ==
    /\ ~aborted
    /\ Done("put_registers", -1, {}, {}, NoExit,
            [hvf_put_registers(Cur) EXCEPT !.vcpu_dirty = FALSE])

\* the register a data abort names, and the value it holds at the exit
ExecDoneAbort(ex, s, srt) ==
    Done("vcpu_exec", srt, IF srt \in XIdx THEN s.hw_exit.reg[HV_REG_X0 + srt] ELSE {},
         {}, ex, s)

ExecDone(ex, s) ==
    IF s.resumed /\ IsDataAbort(ex) THEN ExecDoneAbort(ex, s, AbortSrt(ex))
    ELSE Done("vcpu_exec", -1, {}, {}, ex, s)

\* the host counter has advanced to the last reading made of it
clock_advanced(s) == [s EXCEPT !.machine.clock = IF s.resumed THEN s.in.t_wfi ELSE @]

\* the vCPU thread calls hvf_vcpu_exec
VcpuExec(g, ex, in) ==
    /\ ~aborted
    /\ machine.clock <= in.t_resume /\ in.t_resume <= in.t_exit /\ in.t_exit <= in.t_wfi
    /\ in.t_wfi < 2^TimerBits
    /\ ExecDone(ex, clock_advanced(hvf_vcpu_exec([Cur EXCEPT !.in = in], g, ex)))

\* a device raises or lowers an interrupt request of the CPU
SetInterrupt(req) ==
    /\ ~aborted
    /\ cpu.interrupt_request # req
    /\ cpu' = [cpu EXCEPT !.interrupt_request = req]
    /\ obs' = [NoObs EXCEPT !.op = "set_interrupt"]
    /\ UNCHANGED <<hw, env, cpreg_values, vcpu_dirty, mem, machine, aborted, thread>>

\* the CPU is powered on again (by another CPU's CPU_ON call, by a system reset)
PowerOn ==
    /\ ~aborted
    /\ machine.power_state[cpu.mp_affinity] = PSCI_OFF
    /\ machine' = [machine EXCEPT !.power_state[cpu.mp_affinity] = PSCI_ON]
    /\ cpu' = [cpu EXCEPT !.halted = FALSE]
    /\ obs' = [NoObs EXCEPT !.op = "power_on"]
    /\ UNCHANGED <<hw, env, cpreg_values, vcpu_dirty, mem, aborted, thread>>

(***************************************************************************)
(* What the guest does during a run, and the exits it takes.               *)
(***************************************************************************)
Guest(regs, simd, sysregs) == [reg |-> regs, simd |-> simd, sysreg |-> sysregs]

\* register values the guest computes
V1 == Hex(<<8, 9, 10, 11, 12, 13, 14, 15, 0, 1, 2, 3, 4, 5, 6, 7>>)
PC0 == Hex(<<1, 0, 0, 0>>)
PCLast == AllOnes \ {0, 1}

Exception(syndrome, pa) ==
    [reason |-> "HV_EXIT_REASON_EXCEPTION", syndrome |-> syndrome, physical_address |-> pa]
Canceled == [reason |-> "HV_EXIT_REASON_CANCELED", syndrome |-> {}, physical_address |-> 0]
VtimerActivated ==
    [reason |-> "HV_EXIT_REASON_VTIMER_ACTIVATED", syndrome |-> {}, physical_address |-> 0]
UnknownReason == [reason |-> "HV_EXIT_REASON_UNKNOWN", syndrome |-> {}, physical_address |-> 0]

\* syndromes as the hardware builds them
SynEC(ec) == {b + ARM_EL_EC_SHIFT : b \in BitsOf(ec)}
SynDataAbort(isv, iswrite, sas, srt) ==
    SynEC(EC_DATAABORT) \cup (IF isv THEN ARM_EL_ISV ELSE {}) \cup (IF iswrite THEN {6} ELSE {})
    \cup {b + 22 : b \in BitsOf(sas)} \cup {b + 16 : b \in BitsOf(srt)}
SynSysReg(isread, rt, reg) ==
    SynEC(EC_SYSTEMREGISTERTRAP) \cup (IF isread THEN {0} ELSE {})
    \cup {b + 5 : b \in BitsOf(rt)} \cup BitsOf(reg)
SynWfx(iswfe) == SynEC(EC_WFX_TRAP) \cup (IF iswfe THEN WFX_IS_WFE ELSE {})

\* the inputs of an operation during which the host counter stands at the time t
At(t, cp_read) ==
    [t_resume |-> t, t_exit |-> t, t_wfi |-> t, cp_read |-> cp_read, vclock |-> 0,
     fail |-> {}]

(***************************************************************************)
(* The register transfer layer on its own: the accelerator pulls and       *)
(* pushes, exit handlers read and write registers, the guest runs.         *)
(***************************************************************************)
\* the whole register file as a guest leaves it
GuestFull(x0, pc) ==
    Guest((HV_REG_X0 :> x0) @@ (HV_REG_X0 + 1 :> AllOnes) @@ (HV_REG_PC :> pc)
              @@ (HV_REG_FPCR :> FPCR_MASK) @@ (HV_REG_FPSR :> FPSR_MASK)
              @@ (HV_REG_CPSR :> PSTATE_NZCV \cup PSTATE_BTYPE \cup {0, 2, 7, 21}),
          (0 :> (0..127)),
          ("HV_SYS_REG_MDSCR_EL1" :> {0, 15}) @@ ("HV_SYS_REG_SPSR_EL1" :> {0, 2, 30})
              @@ ("HV_SYS_REG_ELR_EL1" :> PCLast) @@ ("HV_SYS_REG_ESR_EL1" :> SynEC(EC_AA64_HVC))
              @@ ("HV_SYS_REG_VBAR_EL1" :> V1) @@ ("HV_SYS_REG_CNTV_CTL_EL0" :> {0, 2})
              @@ ("HV_SYS_REG_CNTV_CVAL_EL0" :> 2^TimerBits - 1))

\* the guest runs until it is kicked, or until it asks for the PSCI version
RunGuestRTL ==
    \/ VcpuExec(GuestFull(V1, PC0), Canceled, At(machine.clock, {}))
    \/ VcpuExec(GuestFull(QEMU_PSCI_0_2_FN_PSCI_VERSION, PCLast),
                Exception(SynEC(EC_AA64_HVC), 0), At(machine.clock, {}))

SetRegRTL == \E rt \in {NumXRegs - 1, 31} : \E val \in {V1, AllOnes} : SetReg(rt, val)
GetRegRTL == \E rt \in {NumXRegs - 1, 31} : GetReg(rt)

NextRTL == SetRegRTL \/ GetRegRTL \/ SyncState \/ PushState \/ RunGuestRTL

SpecRTL == Init /\ [][NextRTL]_vars

(***************************************************************************)
(* Emulated memory accesses on their own: the guest stores and loads at    *)
(* addresses that are not backed by memory.                                *)
(***************************************************************************)
\* the guest stores register X0, which holds V1
StoreAbort ==
    \E sas \in 0..3 : \E pa \in {0, MaxPhysAddr} :
        VcpuExec(Guest((HV_REG_X0 :> V1) @@ (HV_REG_PC :> PC0), <<>>, <<>>),
                 Exception(SynDataAbort(TRUE, TRUE, sas, 0), pa), At(machine.clock, {}))

\* the guest loads into register X0, or into the zero register
LoadAbort ==
    \E sas \in 0..3 : \E pa \in {0, MaxPhysAddr} : \E srt \in {0, 31} :
        /\ srt = 31 => sas = 3 /\ pa = 0
        /\ VcpuExec(Guest((HV_REG_PC :> PCLast), <<>>, <<>>),
                    Exception(SynDataAbort(TRUE, FALSE, sas, srt), pa), At(machine.clock, {}))

\* an access the hardware reports without a valid instruction syndrome
AbortWithoutSyndrome ==
    \E iswrite \in BOOLEAN :
        VcpuExec(Guest((HV_REG_PC :> PC0), <<>>, <<>>),
                 Exception(SynDataAbort(FALSE, iswrite, 2, 0), 0), At(machine.clock, {}))

NextMMIO == StoreAbort \/ LoadAbort \/ AbortWithoutSyndrome

SpecMMIO == Init /\ [][NextMMIO]_vars

(***************************************************************************)
(* The exit dispatcher: every exit reason and every exception class.       *)
(***************************************************************************)
\* a system register hvf_sysreg_read and hvf_sysreg_write do not know (MIDR_EL1)
SYSREG_UNKNOWN == SYSREG(3, 0, 0, 0, 0)

\* the registers the guest is trapped on
TrappedSysRegs ==
    {SYSREG_CNTPCT_EL0, SYSREG_OSLAR_EL1, SYSREG_ICC_CTLR_EL1, SYSREG_ICC_PMR_EL1,
     SYSREG_ICC_EOIR1_EL1, SYSREG_UNKNOWN}

Trap(isread, rt, reg, cp, pc) == [isread |-> isread, rt |-> rt, reg |-> reg, cp |-> cp, pc |-> pc]

\* reads and writes of every trapped register through X0, and through the zero
\* register and at the last instruction of the address space for some of them
SysRegTraps ==
    {Trap(isread, 0, reg, IF isread THEN {0, 9, 40} ELSE {}, PC0) :
        isread \in BOOLEAN, reg \in TrappedSysRegs}
    \cup {Trap(TRUE, 0, SYSREG_ICC_CTLR_EL1, cp, PC0) : cp \in {{}, AllOnes}}
    \cup {Trap(isread, 31, reg, {}, PCLast) :
            isread \in BOOLEAN, reg \in {SYSREG_ICC_CTLR_EL1, SYSREG_UNKNOWN}}

SysRegTrap ==
    \E tr \in SysRegTraps :
        VcpuExec(Guest((HV_REG_X0 :> V1) @@ (HV_REG_PC :> tr.pc), <<>>, <<>>),
                 Exception(SynSysReg(tr.isread, tr.rt, tr.reg), 0), At(machine.clock, tr.cp))

DebugExit ==
    \E ec \in {EC_SOFTWARESTEP, EC_AA64_BKPT} :
        VcpuExec(Guest((HV_REG_X0 :> V1)
                       @@ (HV_REG_PC :> IF ec = EC_AA64_BKPT THEN PC0 ELSE PCLast), <<>>, <<>>),
                 Exception(SynEC(ec), 0), At(machine.clock, {}))

WfxTrap ==
    \E iswfe \in BOOLEAN :
        VcpuExec(Guest((HV_REG_X0 :> V1) @@ (HV_REG_PC :> PC0), <<>>, <<>>),
                 Exception(SynWfx(iswfe), 0), At(machine.clock, {}))

\* a hypervisor or secure-monitor call: PSCI, or a function nobody knows
FirmwareCall ==
    \E ec \in {EC_AA64_HVC, EC_AA64_SMC} : \E x0 \in {QEMU_PSCI_0_2_FN_PSCI_VERSION, {}} :
        VcpuExec(Guest((HV_REG_X0 :> x0) @@ (HV_REG_PC :> PC0), <<>>, <<>>),
                 Exception(SynEC(ec), 0), At(machine.clock, {}))

DataAbort ==
    \E iswrite \in BOOLEAN :
        VcpuExec(Guest((HV_REG_X0 :> V1) @@ (HV_REG_PC :> PC0), <<>>, <<>>),
                 Exception(SynDataAbort(TRUE, iswrite, 3, 0), 0), At(machine.clock, {}))

\* an exception class without a handler (an instruction abort)
UnhandledException ==
    VcpuExec(Guest((HV_REG_X0 :> V1) @@ (HV_REG_PC :> PC0), <<>>, <<>>),
             Exception(SynEC(32), 0), At(machine.clock, {}))

\* the virtual timer fires while the guest runs
VtimerExit ==
    VcpuExec(Guest((HV_REG_X0 :> V1) @@ (HV_REG_PC :> PC0), <<>>,
                   ("HV_SYS_REG_CNTV_CTL_EL0" :> {0, 2}) @@ ("HV_SYS_REG_CNTV_CVAL_EL0" :> 1)),
             VtimerActivated, At(machine.clock, {}))

\* the vCPU is kicked out of the guest
CanceledExit ==
    VcpuExec(Guest((HV_REG_X0 :> V1) @@ (HV_REG_PC :> PC0), <<>>, <<>>), Canceled,
             At(machine.clock, {}))

UnknownExit ==
    VcpuExec(Guest((HV_REG_X0 :> V1) @@ (HV_REG_PC :> PC0), <<>>, <<>>), UnknownReason,
             At(machine.clock, {}))

Next ==
    \/ SysRegTrap \/ DebugExit \/ WfxTrap \/ FirmwareCall \/ DataAbort
    \/ UnhandledException \/ VtimerExit \/ CanceledExit \/ UnknownExit

Spec == Init /\ [][Next]_vars

(***************************************************************************)
(* The idle wait on its own: the guest programs its virtual timer and      *)
(* executes WFI, devices raise and lower interrupts.                       *)
(***************************************************************************)
\* compare values around the host counter (which stands at 1): past, now, 1 ms,
\* 2 ms and 1.5 s ahead, and half the range of the counter and more ahead
CompareValues ==
    {0, 1, 2, 3, 1501, 2^(TimerBits - 1), 2^(TimerBits - 1) + 1, 2^TimerBits - 1}

\* timer controls: disabled, enabled and masked, enabled
TimerControls == {{}, {0, 1}, {0}}

WfiTrap ==
    \E ctl \in TimerControls : \E cval \in CompareValues :
        VcpuExec(Guest((HV_REG_PC :> PC0), <<>>,
                       ("HV_SYS_REG_CNTV_CTL_EL0" :> ctl) @@ ("HV_SYS_REG_CNTV_CVAL_EL0" :> cval)),
                 Exception(SynWfx(FALSE), 0), At(machine.clock, {}))

WfeTrap ==
    VcpuExec(Guest((HV_REG_PC :> PC0), <<>>, <<>>), Exception(SynWfx(TRUE), 0),
             At(machine.clock, {}))

DeviceInterrupt ==
    \E req \in {{}, {"CPU_INTERRUPT_HARD"}, {"CPU_INTERRUPT_FIQ"}} : SetInterrupt(req)

\* two devices have raised their requests
BothInterrupts == SetInterrupt({"CPU_INTERRUPT_HARD", "CPU_INTERRUPT_FIQ"})

NextWfi == WfiTrap \/ WfeTrap \/ DeviceInterrupt \/ BothInterrupts

SpecWfi == Init /\ [][NextWfi]_vars

(***************************************************************************)
(* The firmware interface on its own: the guest makes PSCI calls.          *)
(***************************************************************************)
Call(ec, x0, x1, x2, ctl) == [ec |-> ec, x0 |-> x0, x1 |-> x1, x2 |-> x2, ctl |-> ctl]

\* affinity values: this CPU, the second CPU, no CPU
AffinityValues == {{}, {0}, BitsOf(NumCpus + 3)}

PsciCalls ==
    {Call(ec, QEMU_PSCI_0_2_FN_PSCI_VERSION, {}, {}, {}) : ec \in {EC_AA64_HVC, EC_AA64_SMC}}
    \cup {Call(EC_AA64_HVC, QEMU_PSCI_0_2_FN_AFFINITY_INFO, x1, x2, {}) :
            x1 \in AffinityValues, x2 \in {{}, {0}}}
    \cup {Call(EC_AA64_SMC, QEMU_PSCI_0_2_FN64_AFFINITY_INFO, {0}, {}, {})}
    \cup {Call(ec, QEMU_PSCI_0_2_FN_SYSTEM_RESET, {}, {}, {}) : ec \in {EC_AA64_HVC, EC_AA64_SMC}}
    \cup {Call(EC_AA64_HVC, QEMU_PSCI_0_2_FN_SYSTEM_OFF, {}, {}, {})}
    \cup {Call(EC_AA64_HVC, QEMU_PSCI_0_2_FN_CPU_SUSPEND, x1, {}, ctl) :
            x1 \in {{}, {16}, {17}, {0, 31}}, ctl \in {{}, {0}}}
    \cup {Call(EC_AA64_SMC, QEMU_PSCI_0_2_FN64_CPU_SUSPEND, {}, {}, {0}),
          Call(EC_AA64_HVC, QEMU_PSCI_0_1_FN_CPU_SUSPEND, {17}, {}, {0}),
          Call(EC_AA64_HVC, QEMU_PSCI_0_2_FN_CPU_ON, {0}, {}, {}),
          Call(EC_AA64_HVC, QEMU_PSCI_0_2_FN_CPU_OFF, {}, {}, {}),
          Call(EC_AA64_HVC, {}, {}, {}, {})}

\* the compare value is 1.5 s ahead of the host counter
PsciCall ==
    \E c \in PsciCalls :
        VcpuExec(Guest((HV_REG_X0 :> c.x0) @@ (HV_REG_X0 + 1 :> c.x1) @@ (HV_REG_X0 + 2 :> c.x2)
                           @@ (HV_REG_PC :> PC0), <<>>,
                       ("HV_SYS_REG_CNTV_CTL_EL0" :> c.ctl) @@ ("HV_SYS_REG_CNTV_CVAL_EL0" :> 1501)),
                 Exception(SynEC(c.ec), 0), At(machine.clock, {}))

NextPSCI == PsciCall \/ PowerOn \/ DeviceInterrupt

SpecPSCI == Init /\ [][NextPSCI]_vars

(***************************************************************************)
(* Firmware calls on their own: the guest executes HVC and SMC with a      *)
(* PSCI function, an unknown function, a CPU service call or the boot      *)
(* probe in X0, from EL0 and from EL1, with its vector base set.           *)
(***************************************************************************)
\* function 1 of the CPU service calls, and the vector base the guest has set
CpuServiceCall1 == Hex(<<12, 1, 0, 0, 0, 0, 0, 1>>)
VBAR0 == Hex(<<2, 0, 0, 0>>)

FirmwareIds ==
    {QEMU_PSCI_0_2_FN_PSCI_VERSION, QEMU_PSCI_0_2_FN_MIGRATE, {}, CpuServiceCall1,
     QEMU_SMCCC_TC_WINDOWS10_BOOT}

\* processor states of the caller: EL0 with the carry flag, EL1h with IRQs masked
CallerStates == {{29}, {0, 2, 7}}

FirmwareCallFrom ==
    \E ec \in {EC_AA64_HVC, EC_AA64_SMC} : \E x0 \in FirmwareIds :
    \E cpsr \in CallerStates : \E pc \in {PC0, PCLast} :
        VcpuExec(Guest((HV_REG_X0 :> x0) @@ (HV_REG_X0 + 2 :> V1) @@ (HV_REG_PC :> pc)
                           @@ (HV_REG_CPSR :> cpsr), <<>>,
                       ("HV_SYS_REG_VBAR_EL1" :> VBAR0)),
                 Exception(SynEC(ec), 0), At(machine.clock, {}))

NextFw == FirmwareCallFrom \/ CanceledExit

SpecFw == Init /\ [][NextFw]_vars

(***************************************************************************)
(* System-register traps on their own: the guest reads and writes the      *)
(* registers the handlers know and some they do not, between firings of    *)
(* its virtual timer.                                                      *)
(***************************************************************************)
AccessedSysRegs ==
    {SYSREG_CNTPCT_EL0, SYSREG_CNTP_CTL_EL0, SYSREG_OSLAR_EL1, SYSREG_PMCCNTR_EL0,
     SYSREG_ICC_EOIR0_EL1, SYSREG_ICC_EOIR1_EL1, SYSREG_ICC_PMR_EL1, SYSREG_ICC_CTLR_EL1,
     SYSREG_UNKNOWN}

\* the guest's X0 holds V1 and its X1 zero, the emulation answers a read with cp
SysRegAccess ==
    \E isread \in BOOLEAN : \E reg \in AccessedSysRegs : \E rt \in {0, 1} :
        VcpuExec(Guest((HV_REG_X0 :> V1) @@ (HV_REG_X0 + 1 :> {}) @@ (HV_REG_PC :> PC0),
                       <<>>, <<>>),
                 Exception(SynSysReg(isread, rt, reg), 0), At(machine.clock, {0, 9, 40}))

\* the timer fires, with its control as the guest has set it
TimerFires ==
    \E ctl \in {{0, 2}, {0, 1, 2}} :
        VcpuExec(Guest((HV_REG_PC :> PC0), <<>>, ("HV_SYS_REG_CNTV_CTL_EL0" :> ctl)),
                 VtimerActivated, At(machine.clock, {}))

NextSysReg == SysRegAccess \/ TimerFires

SpecSysReg == Init /\ [][NextSysReg]_vars

(***************************************************************************)
(* The breakpoint front end: the debugger patches guest instructions with  *)
(* BRK and restores them.  cpu_memory_rw_debug reaches guest memory with   *)
(* the MMU off and can fail.                                               *)
(***************************************************************************)
brk_insn == Hex(<<13, 4, 2, 0, 0, 0, 0, 0>>)
EINVAL == 22
\* insertions of one address that may be outstanding at a time
MaxInserts == 2

\* cpu_memory_rw_debug(cpu, addr, &brk_insn, 4, 1)
insert_write(s, addr, fail) ==
    IF fail = "write" THEN [st |-> s, ret |-> -EINVAL]
    ELSE [st |-> address_space_write(s, addr, brk_insn, 4), ret |-> 0]

\* cpu_memory_rw_debug(cpu, addr, &saved_insn, 4, 0)
insert_read(s, addr, fail) ==
    IF fail = "read" THEN [st |-> s, ret |-> -EINVAL]
    ELSE insert_write([s EXCEPT !.machine.saved_insn = address_space_read(s, addr, 4)],
                      addr, fail)

hvf_insert_breakpoint(s, addr, fail) ==
    insert_read([s EXCEPT !.cpu.enable_debug = TRUE], addr, fail)

hvf_remove_breakpoint(s, addr, fail) ==
    IF fail = "write" THEN [st |-> s, ret |-> -EINVAL]
    ELSE [st |-> address_space_write(s, addr, s.machine.saved_insn, 4), ret |-> 0]

\* what is known of address addr after an insertion that returned ret
inserted(s, addr, ret) ==
    IF ret # 0 THEN [s EXCEPT !.machine.bp_failed = TRUE]
    ELSE [s EXCEPT !.machine.bp[addr] =
             [n |-> @.n + 1, seen |-> TRUE,
              orig |-> IF @.seen THEN @.orig ELSE address_space_read(s, addr, 4)]]

removed(s, addr, ret) ==
    IF ret # 0 THEN [s EXCEPT !.machine.bp_failed = TRUE]
    ELSE [s EXCEPT !.machine.bp[addr].n = @ - 1]

BreakpointDone(op, addr, r) ==
    /\ Commit(IF op = "insert_breakpoint"
                  THEN [inserted(Cur, addr, r.ret) EXCEPT !.mem = r.st.mem, !.cpu = r.st.cpu,
                            !.machine.saved_insn = r.st.machine.saved_insn]
              ELSE [removed(Cur, addr, r.ret) EXCEPT !.mem = r.st.mem])
    /\ obs' = [NoObs EXCEPT !.op = op, !.rt = addr, !.ret = r.ret]

InsertBreakpoint ==
    \E addr \in BpAddrs : \E fail \in {"none", "read", "write"} :
        /\ ~aborted
        /\ machine.bp[addr].n < MaxInserts
        /\ BreakpointDone("insert_breakpoint", addr, hvf_insert_breakpoint(Cur, addr, fail))

\* the debugger removes a breakpoint it has inserted
RemoveBreakpoint ==
    \E addr \in BpAddrs : \E fail \in {"none", "write"} :
        /\ ~aborted
        /\ machine.bp[addr].n > 0
        /\ BreakpointDone("remove_breakpoint", addr, hvf_remove_breakpoint(Cur, addr, fail))

\* two instructions of the guest image: NOP and RET
GuestImage == (0 :> Hex(<<13, 5, 0, 3, 2, 0, 1, 15>>)) @@ (4 :> Hex(<<13, 6, 5, 15, 0, 3, 12, 0>>))

\* the image is loaded before the debugger attaches
LoadImage ==
    /\ ~aborted
    /\ mem = NoMem /\ machine.bp = NoBreakpoints /\ ~machine.bp_failed
    /\ Commit(address_space_write(address_space_write(Cur, 0, GuestImage[0], 4),
                                  4, GuestImage[4], 4))
    /\ obs' = [NoObs EXCEPT !.op = "load_image"]

NextBp == InsertBreakpoint \/ RemoveBreakpoint \/ LoadImage

SpecBp == Init /\ [][NextBp]_vars

(***************************************************************************)
(* Debug control: the debugger switches single-stepping on and off and     *)
(* inserts and removes breakpoints while the vCPU is stopped, and the vCPU *)
(* is resumed in between.                                                  *)
(***************************************************************************)
\* hvf_update_guest_debug: hvf_arch_update_guest_debug runs
\* hvf_invoke_set_guest_debug on the vCPU
hvf_update_guest_debug(s) == [hvf_invoke_set_guest_debug(s) EXCEPT !.ret = 0]

\* the debugger sets or clears singlestep_enabled and has the accelerator updated
SetSingleStep ==
    \E on \in BOOLEAN :
        /\ ~aborted
        /\ cpu.singlestep_enabled # on
        /\ Commit(hvf_update_guest_debug([Cur EXCEPT !.cpu.singlestep_enabled = on]))
        /\ obs' = [NoObs EXCEPT !.op = "update_guest_debug"]

NextDbg == InsertBreakpoint \/ RemoveBreakpoint \/ SetSingleStep \/ CanceledExit

SpecDbg == Init /\ [][NextDbg]_vars

(***************************************************************************)
(* The host-feature cache, statement by statement: threads that create a   *)
(* CPU call hvf_arm_set_cpu_features_from_host, which takes no lock.  The  *)
(* accelerator is enabled and its calls succeed.                           *)
(***************************************************************************)
\* the order in which hvf_arm_get_host_cpu_features writes the fields of *ahcf
InitOrder == <<"dtb_compatible", "features", "midr", "isar", "reset_sctlr">>

HostStep(h) ==
    /\ ~aborted
    /\ machine' = [machine EXCEPT !.host = h]
    /\ obs' = [NoObs EXCEPT !.op = "host_features"]
    /\ UNCHANGED <<hw, env, cpreg_values, vcpu_dirty, mem, cpu, aborted, thread>>

\* a thread calls hvf_arm_set_cpu_features_from_host
ProbeCall(t) ==
    /\ machine.host.pc[t] = "idle"
    /\ HostStep([machine.host EXCEPT !.pc[t] = "check"])

\* if (!arm_host_cpu_features.dtb_compatible)
ProbeCheck(t) ==
    /\ machine.host.pc[t] = "check"
    /\ HostStep(IF "dtb_compatible" \in machine.host.cache
                    THEN [machine.host EXCEPT !.pc[t] = "copy"]
                ELSE [machine.host EXCEPT !.pc[t] = InitOrder[1], !.inits = @ + 1])

\* hvf_arm_get_host_cpu_features: the next field of the cache is written
ProbeWrite(t) ==
    \E i \in DOMAIN InitOrder :
        /\ machine.host.pc[t] = InitOrder[i]
        /\ HostStep([machine.host EXCEPT
                        !.cache = @ \cup {InitOrder[i]},
                        !.pc[t] = IF i < Len(InitOrder) THEN InitOrder[i + 1] ELSE "copy"])

\* the fields of the cache are copied to the CPU
ProbeCopy(t) ==
    /\ machine.host.pc[t] = "copy"
    /\ HostStep([machine.host EXCEPT !.got[t] = machine.host.cache, !.pc[t] = "done"])

\* the CPU is realized; its thread may create another one
ProbeReturn(t) ==
    /\ machine.host.pc[t] = "done"
    /\ HostStep([machine.host EXCEPT !.pc[t] = "idle", !.got[t] = {}])

NextHost ==
    \E t \in ProbeThreads :
        ProbeCall(t) \/ ProbeCheck(t) \/ ProbeWrite(t) \/ ProbeCopy(t) \/ ProbeReturn(t)

SpecHost == Init /\ [][NextHost]_vars

(***************************************************************************)
(* The exit timestamp with two vCPU threads, statement by statement.  The  *)
(* timestamp is one variable of the file; each thread holds the lock when  *)
(* it enters hvf_vcpu_exec and releases it around the hardware run.        *)
(***************************************************************************)
\* the host counter does not go beyond this in the two-thread specification
MaxTime == 3

VtStep(m) ==
    /\ ~aborted
    /\ machine' = m
    /\ obs' = [NoObs EXCEPT !.op = "two_vcpus"]
    /\ UNCHANGED <<hw, env, cpreg_values, vcpu_dirty, mem, cpu, aborted, thread>>

\* the vCPU thread takes the lock and calls hvf_vcpu_exec
VtAcquire(v) ==
    /\ machine.vt.pc[v] = "wait_lock" /\ machine.vt.holder = "none"
    /\ VtStep([machine EXCEPT !.vt.holder = v, !.vt.pc[v] = "adjust"])

\* if (exit_timestamp != 0) { ... vtimer_offset += time_passed; ... }
VtAdjust(v) ==
    /\ machine.vt.pc[v] = "adjust"
    /\ VtStep([machine EXCEPT
                  !.vt.pc[v] = "unlock",
                  !.vt.unlocked_access = @ \/ machine.vt.holder # v,
                  !.vt.added[v] = IF machine.exit_timestamp # 0
                                     THEN machine.clock - machine.exit_timestamp ELSE 0,
                  !.vt.due[v] = IF machine.vt.own_exit[v] # 0
                                   THEN machine.clock - machine.vt.own_exit[v] ELSE 0])

\* qemu_mutex_unlock_iothread(); hv_vcpu_run(...)
VtUnlock(v) ==
    /\ machine.vt.pc[v] = "unlock"
    /\ VtStep([machine EXCEPT !.vt.holder = "none", !.vt.pc[v] = "run"])

\* hv_vcpu_run returns
VtExit(v) ==
    /\ machine.vt.pc[v] = "run"
    /\ VtStep([machine EXCEPT !.vt.pc[v] = "stamp"])

\* exit_timestamp = mach_absolute_time()
VtStamp(v) ==
    /\ machine.vt.pc[v] = "stamp"
    /\ VtStep([machine EXCEPT
                  !.exit_timestamp = machine.clock,
                  !.vt.own_exit[v] = machine.clock,
                  !.vt.unlocked_access = @ \/ machine.vt.holder # v,
                  !.vt.pc[v] = "lock"])

\* qemu_mutex_lock_iothread()
VtLock(v) ==
    /\ machine.vt.pc[v] = "lock" /\ machine.vt.holder = "none"
    /\ VtStep([machine EXCEPT !.vt.holder = v, !.vt.pc[v] = "handle"])

\* the exit is handled and hvf_vcpu_exec returns; the thread calls it again
VtAgain(v) ==
    /\ machine.vt.pc[v] = "handle"
    /\ VtStep([machine EXCEPT !.vt.pc[v] = "adjust"])

\* the exit is handled and hvf_vcpu_exec returns; the thread releases the lock
\* to wait for work
VtYield(v) ==
    /\ machine.vt.pc[v] = "handle"
    /\ VtStep([machine EXCEPT !.vt.holder = "none", !.vt.pc[v] = "wait_lock"])

\* host time passes
VtTick ==
    /\ machine.clock < MaxTime
    /\ VtStep([machine EXCEPT !.clock = @ + 1])

NextVt ==
    \/ VtTick
    \/ \E v \in VcpuThreads :
           \/ VtAcquire(v) \/ VtAdjust(v) \/ VtUnlock(v) \/ VtExit(v)
           \/ VtStamp(v) \/ VtLock(v) \/ VtAgain(v) \/ VtYield(v)

SpecVt == Init /\ [][NextVt]_vars

(***************************************************************************)
(* Properties of the register transfer layer.                              *)
(***************************************************************************)
\* the last operation read register rt right after a write of the same register
ReadAfterWrite ==
    obs.op = "get_reg" /\ obs.prev.op = "set_reg" /\ obs.prev.rt = obs.rt

\* the hardware as flush_cpu_state alone leaves it from the state the last
\* operation started in
HwAfterFlushOnly ==
    flush_cpu_state([Cur EXCEPT !.hw = obs.hw_pre, !.env = obs.env_pre,
                                !.vcpu_dirty = obs.dirty_pre]).hw

\* C1 as stated: hvf_set_reg(i, v) followed by hvf_get_reg(i) returns v for every
\* index 0..30, whether the dirty flag was set or clear before the write; for
\* index 31 hvf_get_reg returns 0 and hvf_set_reg changes no hardware register.
C1_AsStated ==
    /\ (ReadAfterWrite /\ obs.rt \in 0..30) => obs.rval = obs.prev.val
    /\ (obs.op = "get_reg" /\ obs.rt = 31) => obs.rval = {}
    /\ (obs.op = "set_reg" /\ obs.rt = 31) => hw = obs.hw_pre

\* C1, amended: the read returns the value written for every index 0..30, dirty
\* or not; for index 31 hvf_get_reg returns 0 and hvf_set_reg writes no register
\* of its own: the hardware is as the pending push alone leaves it, and is
\* unchanged when the dirty flag was clear.
C1_SetGetRoundTrip ==
    /\ (ReadAfterWrite /\ obs.rt \in 0..30) => obs.rval = obs.prev.val
    /\ (obs.op = "get_reg" /\ obs.rt = 31) => obs.rval = {}
    /\ (obs.op = "set_reg" /\ obs.rt = 31) =>
           /\ hw = HwAfterFlushOnly
           /\ ~obs.dirty_pre => hw = obs.hw_pre

\* a register below 31 is read back right after a write made with a push pending
C1_Witness ==
    /\ ReadAfterWrite /\ obs.rt \in 0..30
    /\ obs.prev.dirty_pre
    /\ obs.rval = V1

\* the registers the match tables cover
TableCovered(h) == [reg |-> h.reg, simd |-> h.simd, sysreg |-> h.sysreg]

\* C2: hvf_get_registers followed immediately by hvf_put_registers leaves every
\* hardware register the match tables cover with the value it had before the pull.
C2_PullPushRoundTrip ==
    (obs.op = "put_registers" /\ obs.prev.op = "get_registers") =>
        TableCovered(hw) = TableCovered(obs.hw_pre)

\* a pull and a push of a register file the guest has filled, the emulated
\* state having been different from it before the pull
C2_Witness ==
    /\ obs.op = "put_registers" /\ obs.prev.op = "get_registers"
    /\ hw.reg[HV_REG_PC] = PCLast
    /\ hw.reg[HV_REG_FPCR] = FPCR_MASK
    /\ hw.reg[HV_REG_CPSR] # {}
    /\ hw.sysreg["HV_SYS_REG_VBAR_EL1"] = V1

(***************************************************************************)
(* Properties of the exit handlers.                                        *)
(***************************************************************************)
\* the last operation was a call of hvf_vcpu_exec that ran the guest and came
\* back with an exception of one of the classes ecs
ExceptionExit(ecs) ==
    /\ obs.op = "vcpu_exec" /\ obs.resumed /\ ~aborted
    /\ obs.exit.reason = "HV_EXIT_REASON_EXCEPTION"
    /\ Field(obs.exit.syndrome, ARM_EL_EC_SHIFT, 6) \in ecs

PcAtExit == obs.hw_exit.reg[HV_REG_PC]
PcAdvancedBy4 == hw.reg[HV_REG_PC] = AddPow2(PcAtExit, 2)

\* the n-byte value held in memory m at address P, lowest byte first
MemValue(m, P, n) == UNION {{b + 8 * i : b \in m[P + i]} : i \in 0..(n - 1)}
LowBytes(v, n) == v \cap (0..(8 * n - 1))

StoreExit == ExceptionExit({EC_DATAABORT}) /\ IsDataAbort(obs.exit) /\ AbortIsWrite(obs.exit)
LoadExit == ExceptionExit({EC_DATAABORT}) /\ IsDataAbort(obs.exit) /\ ~AbortIsWrite(obs.exit)
\* the load reads back what the store before it has written
LoadAfterStore ==
    /\ LoadExit /\ obs.prev.op = "vcpu_exec"
    /\ AbortLen(obs.prev.exit) = AbortLen(obs.exit)
    /\ obs.prev.exit.physical_address = obs.exit.physical_address

\* C3: a data-abort write of size n in {1,2,4,8} at physical address P whose
\* source register holds V stores the low n bytes of V at P (and nothing else);
\* a following data-abort read of size n at P loads that value into the target
\* register; both exits advance the program counter by 4.
C3_DataAbortEmulation ==
    /\ StoreExit =>
           /\ AbortLen(obs.exit) \in {1, 2, 4, 8}
           /\ MemValue(mem, obs.exit.physical_address, AbortLen(obs.exit))
                  = LowBytes(obs.val, AbortLen(obs.exit))
           /\ \A a \in MemAddrs :
                  (a < obs.exit.physical_address
                   \/ a >= obs.exit.physical_address + AbortLen(obs.exit))
                      => mem[a] = obs.mem_pre[a]
           /\ PcAdvancedBy4
    /\ LoadExit => PcAdvancedBy4 /\ mem = obs.mem_pre
    /\ (LoadAfterStore /\ obs.rt \in XIdx) =>
           hw.reg[HV_REG_X0 + obs.rt] = LowBytes(obs.prev.val, AbortLen(obs.exit))

\* a 4-byte load at the highest address reads back the 4 bytes just stored there
C3_Witness ==
    /\ LoadAfterStore /\ obs.rt = 0
    /\ AbortLen(obs.exit) = 4 /\ obs.exit.physical_address = MaxPhysAddr
    /\ hw.reg[HV_REG_X0] = LowBytes(V1, 4)

TrapIsRead == 0 \in obs.exit.syndrome
TrapRt == Field(obs.exit.syndrome, 5, 5)
TrapReg == NatOf(obs.exit.syndrome \cap SYSREG_MASK)

\* C4: after any system-register trap (read or write, intercepted, discarded or
\* unknown register) the hardware program counter is its value at the trap plus
\* 4, and no pending push is left that would take it back.
C4_SysRegTrapAdvancesPc ==
    ExceptionExit({EC_SYSTEMREGISTERTRAP}) =>
        /\ PcAdvancedBy4
        /\ vcpu_dirty => env.pc = hw.reg[HV_REG_PC]

\* a write to an unknown register, which synchronizes the state while it is
\* handled, trapped at the last instruction of the address space
C4_Witness ==
    /\ ExceptionExit({EC_SYSTEMREGISTERTRAP})
    /\ ~TrapIsRead /\ TrapReg = SYSREG_UNKNOWN
    /\ PcAtExit = PCLast /\ hw.reg[HV_REG_PC] = {}

\* C5: hvf_vcpu_exec returns EXCP_DEBUG exactly when the exit is an exception of
\* class software step or breakpoint instruction, and then the program counter,
\* on the hardware and in the synchronized emulated state, is the one at the
\* exit; every other exit that returns from a run returns 0.
C5_DebugStop ==
    (obs.op = "vcpu_exec" /\ obs.resumed /\ ~aborted) =>
        IF ExceptionExit({EC_SOFTWARESTEP, EC_AA64_BKPT})
            THEN /\ obs.ret = EXCP_DEBUG
                 /\ hw.reg[HV_REG_PC] = PcAtExit
                 /\ vcpu_dirty /\ env.pc = PcAtExit
        ELSE obs.ret = 0

C5_Witness ==
    /\ ExceptionExit({EC_SOFTWARESTEP})
    /\ obs.ret = EXCP_DEBUG
    /\ hw.reg[HV_REG_PC] = PCLast

\* C6: a trapped read of ICC_CTLR_EL1 delivers 4 in the priority-bits field
\* whatever the coprocessor-register emulation returns, and every bit outside
\* the field as the emulation returned it.
C6_IccCtlrPriBits ==
    (ExceptionExit({EC_SYSTEMREGISTERTRAP}) /\ TrapIsRead /\ TrapReg = SYSREG_ICC_CTLR_EL1
     /\ TrapRt \in XIdx) =>
        /\ Field(hw.reg[HV_REG_X0 + TrapRt], ICC_CTLR_EL1_PRIBITS_SHIFT, 3) = 4
        /\ hw.reg[HV_REG_X0 + TrapRt] \ ICC_CTLR_EL1_PRIBITS_MASK
               = obs.in.cp_read \ ICC_CTLR_EL1_PRIBITS_MASK

\* the emulation returns all ones: the field is brought down from 7 to 4
C6_Witness ==
    /\ ExceptionExit({EC_SYSTEMREGISTERTRAP}) /\ TrapIsRead /\ TrapReg = SYSREG_ICC_CTLR_EL1
    /\ TrapRt = 0 /\ obs.in.cp_read = AllOnes
    /\ hw.reg[HV_REG_X0] = AllOnes \ {8, 9}

(***************************************************************************)
(* Properties of the idle wait.                                            *)
(***************************************************************************)
\* what hvf_wfi found when it was called: the interrupt requests, the timer
\* control and compare value, the host counter
IrqAtWfi == obs.irq_pre \cap {"CPU_INTERRUPT_HARD", "CPU_INTERRUPT_FIQ"} # {}
CtlAtWfi == obs.hw_exit.sysreg["HV_SYS_REG_CNTV_CTL_EL0"]
CvalAtWfi == obs.hw_exit.sysreg["HV_SYS_REG_CNTV_CVAL_EL0"]
NowAtWfi == obs.in.t_wfi
RemainingTicks == CvalAtWfi - NowAtWfi

WfiExit == ExceptionExit({EC_WFX_TRAP}) /\ ~(0 \in obs.exit.syndrome)

\* the timeout the remaining ticks make at the guest counter frequency
RemainingTime ==
    [kind |-> "timeout", sec |-> RemainingTicks \div gt_cntfrq_hz,
     nsec |-> (RemainingTicks % gt_cntfrq_hz) * (1000000000 \div gt_cntfrq_hz)]

\* C7: hvf_wfi returns without blocking if IRQ or FIQ is requested; else blocks
\* with no timeout if the timer is disabled or masked; else returns if the
\* compare value is already past; else returns if less than 2 ms remain; else
\* blocks with the remaining ticks, as seconds and nanoseconds, as timeout.
C7_AsStated ==
    WfiExit =>
        IF IrqAtWfi THEN obs.wait.kind = "none"
        ELSE IF ~(0 \in CtlAtWfi) \/ (1 \in CtlAtWfi) THEN obs.wait.kind = "forever"
        ELSE IF CvalAtWfi <= NowAtWfi THEN obs.wait.kind = "none"
        ELSE IF RemainingTicks * 1000 < 2 * gt_cntfrq_hz THEN obs.wait.kind = "none"
        ELSE obs.wait = RemainingTime

\* the timer is enabled and unmasked, its compare value is half the range of the
\* counter ahead, and hvf_wfi has returned without blocking
C7_Witness ==
    /\ WfiExit /\ ~IrqAtWfi /\ CtlAtWfi = {0}
    /\ RemainingTicks = 2^(TimerBits - 1)
    /\ obs.wait.kind = "none"

(***************************************************************************)
(* Properties of the firmware interface.                                   *)
(***************************************************************************)
\* the last operation was a run that came back with an HVC or SMC whose function
\* identifier is one of ids
PsciExit(ids) == ExceptionExit({EC_AA64_HVC, EC_AA64_SMC}) /\ obs.hw_exit.reg[HV_REG_X0] \in ids

\* the general-purpose register 0 the guest will see
GPR0 == IF vcpu_dirty THEN env.xregs[0] ELSE hw.reg[HV_REG_X0]
Param1 == obs.hw_exit.reg[HV_REG_X0 + 1]
Param2 == obs.hw_exit.reg[HV_REG_X0 + 2]
InvalidParams == AllOnes \ {0}

\* the handler has reported the call as handled
Handled == obs.psci = 0

\* C8: the PSCI-version call writes version 0.2 to GPR0; an affinity-info call
\* with lowest affinity level 0 writes the invalid-parameters code when no CPU
\* has the given affinity value and else that CPU's power state; with a non-zero
\* level it writes 0; all of them are reported as handled.
C8_VersionAndAffinityInfo ==
    /\ PsciExit({QEMU_PSCI_0_2_FN_PSCI_VERSION}) => Handled /\ GPR0 = {1}
    /\ PsciExit({QEMU_PSCI_0_2_FN_AFFINITY_INFO, QEMU_PSCI_0_2_FN64_AFFINITY_INFO}) =>
           /\ Handled
           /\ Param2 # {} => GPR0 = {}
           /\ Param2 = {} =>
                  IF \E c \in 0..(NumCpus - 1) : BitsOf(c) = Param1
                      THEN \E c \in 0..(NumCpus - 1) :
                               BitsOf(c) = Param1 /\ GPR0 = BitsOf(machine.power_state[c])
                  ELSE GPR0 = InvalidParams

\* affinity info at level 0 for the second CPU, which is off
C8_Witness ==
    /\ PsciExit({QEMU_PSCI_0_2_FN_AFFINITY_INFO})
    /\ Param1 = {0} /\ Param2 = {}
    /\ machine.power_state[1] = PSCI_OFF /\ GPR0 = {0}

TracePos(e) == {i \in DOMAIN obs.trace : obs.trace[i] = e}
RequestedThenParked(request) ==
    /\ TracePos(<<request>>) # {} /\ TracePos(<<"cpu_off">>) # {}
    /\ \A i \in TracePos(<<request>>) : \A j \in TracePos(<<"cpu_off">>) : i < j

ThisCpuOff == machine.power_state[cpu.mp_affinity] = PSCI_OFF

ResetOrOffParks ==
    /\ PsciExit({QEMU_PSCI_0_2_FN_SYSTEM_RESET}) =>
           machine.reset_requested /\ RequestedThenParked("reset_request")
    /\ PsciExit({QEMU_PSCI_0_2_FN_SYSTEM_OFF}) =>
           machine.shutdown_requested /\ RequestedThenParked("shutdown_request")
    /\ PsciExit({QEMU_PSCI_0_2_FN_SYSTEM_RESET, QEMU_PSCI_0_2_FN_SYSTEM_OFF}) =>
           /\ ThisCpuOff /\ cpu.halted
           /\ GPR0 = obs.hw_exit.reg[HV_REG_X0]

\* C9: a system-reset or system-off call first issues the reset or shutdown
\* request and then parks the calling vCPU in the off state, writes no result
\* to GPR0, and while the vCPU is off no step resumes it on the hardware.
C9_ResetOrOffParks ==
    /\ []ResetOrOffParks
    /\ [][ThisCpuOff => ~obs'.resumed]_vars

\* hvf_vcpu_exec was called after the system reset parked the vCPU, and came
\* back without a run
C9_Witness ==
    /\ machine.reset_requested /\ ThisCpuOff
    /\ obs.op = "vcpu_exec" /\ ~obs.resumed /\ obs.ret = EXCP_HLT

SuspendIds ==
    {QEMU_PSCI_0_1_FN_CPU_SUSPEND, QEMU_PSCI_0_2_FN_CPU_SUSPEND, QEMU_PSCI_0_2_FN64_CPU_SUSPEND}

\* what hvf_wfi does in the state the call found
WfiAtCall == hvf_wfi([Cur EXCEPT !.hw = obs.hw_exit, !.in = obs.in, !.trace = <<>>,
                                 !.wait = NoWait, !.cpu.interrupt_request = obs.irq_pre])

\* C10: a CPU-suspend call with a bit of 0xfffe0000 set in its power-state
\* parameter writes the invalid-parameters code to GPR0 and does not wait; any
\* other does what hvf_wfi does, leaves the power state alone and 0 in GPR0.
C10_CpuSuspend ==
    PsciExit(SuspendIds) =>
        IF Param1 \cap (17..31) # {}
            THEN /\ GPR0 = InvalidParams
                 /\ obs.wait = NoWait
                 /\ TracePos(<<"wfi">>) = {} /\ TracePos(<<"pselect">>) = {}
        ELSE /\ Cardinality(TracePos(<<"wfi">>)) = 1
             /\ obs.wait = WfiAtCall.wait
             /\ (obs.wait = NoWait) = (TracePos(<<"pselect">>) = {})
             /\ machine.power_state[cpu.mp_affinity] = obs.power_pre
             /\ cpu.halted = obs.halted_pre
             /\ TracePos(<<"cpu_off">>) = {}
             /\ GPR0 = {}

\* a suspend to a power-down state with the timer 1.5 s ahead has slept on it
C10_Witness ==
    /\ PsciExit({QEMU_PSCI_0_2_FN_CPU_SUSPEND}) /\ Param1 = {16}
    /\ obs.wait = [kind |-> "timeout", sec |-> 1, nsec |-> 500000000]
    /\ GPR0 = {}

(***************************************************************************)
(* Accelerator calls that fail: the vCPU thread runs while the calls of     *)
(* one kind return an error status.                                        *)
(***************************************************************************)
HvCalls ==
    {"hv_vcpu_get_reg", "hv_vcpu_set_reg", "hv_vcpu_get_sys_reg", "hv_vcpu_set_sys_reg",
     "hv_vcpu_run", "hv_vcpu_set_pending_interrupt", "hv_vcpu_set_vtimer_mask",
     "hv_vcpu_get_vtimer_offset", "hv_vcpu_set_vtimer_offset",
     "hv_vcpu_set_trap_debug_exceptions"}

Failing(t, fail) == [At(t, {}) EXCEPT !.fail = fail]

\* the guest runs, leaves its timer enabled and pending or disabled, and exits
RunWithFailures ==
    \E fail \in {{}} \cup {{c} : c \in HvCalls}, ctl \in {{}, {0, 2}},
       ex \in {Canceled, VtimerActivated, Exception(SynWfx(TRUE), 0)} :
        VcpuExec(Guest((HV_REG_X0 :> V1) @@ (HV_REG_PC :> PC0), <<>>,
                       "HV_SYS_REG_CNTV_CTL_EL0" :> ctl),
                 ex, Failing(machine.clock, fail))

NextFail == RunWithFailures \/ DeviceInterrupt \/ SyncState

SpecFail == Init /\ [][NextFail]_vars

(***************************************************************************)
(* The idle wait and the kick, statement by statement: the vCPU thread goes *)
(* through hvf_wfi and hvf_wait_for_ipi while a device thread raises and    *)
(* lowers an interrupt under the lock, and any thread kicks.  SIG_IPI is    *)
(* blocked in the vCPU thread except during pselect.                       *)
(***************************************************************************)
\* cpus_kick_thread: SIG_IPI is sent to the thread unless a kick is already noted
cpus_kick_thread(k) ==
    IF k.cpu.thread_kicked THEN k
    ELSE [k EXCEPT !.cpu.thread_kicked = TRUE, !.thread.sig_ipi = TRUE]

\* hv_vcpus_exit: a run in progress is made to exit; a thread that is not in
\* hv_vcpu_run is not affected
hv_vcpus_exit(k) == k

\* a mutant: the kick only forces a hardware exit
hvf_kick_vcpu_thread_exit_only(k) == hv_vcpus_exit(k)

hvf_kick_vcpu_thread(k) == hv_vcpus_exit(cpus_kick_thread(k))

\* the kick has been made
kick_made(k) ==
    /\ cpu' = k.cpu
    /\ thread' = [k.thread EXCEPT !.kicked = TRUE]

OnlyThread == UNCHANGED <<hw, env, cpreg_values, vcpu_dirty, mem, cpu, machine, aborted, obs>>
ThreadAndCpu == UNCHANGED <<hw, env, cpreg_values, vcpu_dirty, mem, machine, aborted, obs>>
ThreadAndLock == UNCHANGED <<hw, env, cpreg_values, vcpu_dirty, mem, cpu, aborted, obs>>

\* the thread's loop notes that it is awake before it calls hvf_vcpu_exec
ThreadLoop ==
    /\ thread.pc = "loop"
    /\ cpu' = [cpu EXCEPT !.thread_kicked = FALSE]
    /\ thread' = [thread EXCEPT !.pc = "resume"]
    /\ ThreadAndCpu

\* hvf_vcpu_exec releases the lock and runs the guest
Resume ==
    /\ thread.pc = "resume"
    /\ machine' = [machine EXCEPT !.iothread_locked = FALSE]
    /\ thread' = [thread EXCEPT !.pc = "run"]
    /\ ThreadAndLock

\* the guest executes WFI: the run ends, the lock is taken and hvf_wfi is called
WfxExit ==
    /\ thread.pc = "run" /\ ~machine.iothread_locked
    /\ machine' = [machine EXCEPT !.iothread_locked = TRUE]
    /\ thread' = [thread EXCEPT !.pc = "wfi"]
    /\ ThreadAndLock

\* the run ends for another reason and hvf_vcpu_exec returns
OtherExit ==
    /\ thread.pc = "run" /\ ~machine.iothread_locked
    /\ machine' = [machine EXCEPT !.iothread_locked = TRUE]
    /\ thread' = [thread EXCEPT !.pc = "loop"]
    /\ ThreadAndLock

\* hvf_wfi: return if an interrupt is requested; otherwise the timer decides
\* whether the wait has a timeout
WfiCheck ==
    /\ thread.pc = "wfi"
    /\ \E ts \in {"forever", "timed"} :
           thread' = [thread EXCEPT
               !.pc = IF cpu.interrupt_request
                          \cap {"CPU_INTERRUPT_HARD", "CPU_INTERRUPT_FIQ"} # {}
                          THEN "loop" ELSE "clear",
               !.ts = ts, !.kicked = FALSE]
    /\ OnlyThread

\* hvf_wait_for_ipi: qatomic_mb_set(&cpu->thread_kicked, false)
WaitClear ==
    /\ thread.pc = "clear"
    /\ cpu' = [cpu EXCEPT !.thread_kicked = FALSE]
    /\ thread' = [thread EXCEPT !.pc = "unlock"]
    /\ ThreadAndCpu

\* hvf_wait_for_ipi: qemu_mutex_unlock_iothread()
WaitUnlock ==
    /\ thread.pc = "unlock"
    /\ machine' = [machine EXCEPT !.iothread_locked = FALSE]
    /\ thread' = [thread EXCEPT !.pc = "pselect"]
    /\ ThreadAndLock

\* hvf_wait_for_ipi: pselect returns when SIG_IPI is pending, which it unblocks
\* for the time of the wait and which is then delivered, or when the timeout ends
WaitPselect ==
    /\ thread.pc = "pselect"
    /\ thread.sig_ipi \/ thread.ts = "timed"
    /\ thread' = [thread EXCEPT !.pc = "lock", !.sig_ipi = FALSE]
    /\ OnlyThread

\* hvf_wait_for_ipi: qemu_mutex_lock_iothread(); hvf_wfi and hvf_vcpu_exec return
WaitLock ==
    /\ thread.pc = "lock" /\ ~machine.iothread_locked
    /\ machine' = [machine EXCEPT !.iothread_locked = TRUE]
    /\ thread' = [thread EXCEPT !.pc = "loop"]
    /\ ThreadAndLock

\* a device thread takes the lock
DevAcquire ==
    /\ thread.dev = "idle" /\ ~machine.iothread_locked
    /\ machine' = [machine EXCEPT !.iothread_locked = TRUE]
    /\ thread' = [thread EXCEPT !.dev = "locked"]
    /\ ThreadAndLock

\* it raises the interrupt request of the CPU
DevRaise ==
    /\ thread.dev = "locked" /\ cpu.interrupt_request = {}
    /\ cpu' = [cpu EXCEPT !.interrupt_request = {"CPU_INTERRUPT_HARD"}]
    /\ thread' = [thread EXCEPT !.dev = "raised"]
    /\ ThreadAndCpu

\* and kicks the vCPU thread
DevKick ==
    /\ thread.dev = "raised"
    /\ kick_made(hvf_kick_vcpu_thread(
           [cpu |-> cpu, thread |-> [thread EXCEPT !.dev = "done"]]))
    /\ ThreadAndCpu

\* or it lowers the request
DevLower ==
    /\ thread.dev = "locked" /\ cpu.interrupt_request # {}
    /\ cpu' = [cpu EXCEPT !.interrupt_request = {}]
    /\ thread' = [thread EXCEPT !.dev = "done"]
    /\ ThreadAndCpu

\* the device thread releases the lock
DevRelease ==
    /\ thread.dev = "done"
    /\ machine' = [machine EXCEPT !.iothread_locked = FALSE]
    /\ thread' = [thread EXCEPT !.dev = "idle"]
    /\ ThreadAndLock

\* a thread that does not hold the lock kicks the vCPU thread
AsyncKick ==
    /\ kick_made(hvf_kick_vcpu_thread([cpu |-> cpu, thread |-> thread]))
    /\ ThreadAndCpu

NextKick ==
    \/ ThreadLoop \/ Resume \/ WfxExit \/ OtherExit \/ WfiCheck
    \/ WaitClear \/ WaitUnlock \/ WaitPselect \/ WaitLock
    \/ DevAcquire \/ DevRaise \/ DevKick \/ DevLower \/ DevRelease \/ AsyncKick

SpecKick == Init /\ [][NextKick]_vars

\* the threads are scheduled and the lock is granted to a thread that keeps asking
FairKick ==
    /\ SpecKick
    /\ WF_vars(WaitClear) /\ WF_vars(WaitUnlock) /\ WF_vars(WaitPselect)
    /\ SF_vars(WaitLock)
    /\ WF_vars(DevRaise \/ DevLower) /\ WF_vars(DevKick) /\ WF_vars(DevRelease)

(***************************************************************************)
(* Exit reasons.                                                           *)
(***************************************************************************)
\* the last operation was a hardware run that ended with the given exit reason
ReasonExit(reason) == obs.op = "vcpu_exec" /\ obs.resumed /\ obs.exit.reason = reason

Dispatched == \E i \in DOMAIN obs.trace : obs.trace[i] = <<"dispatch">>

\* the lock was taken again after the run and nothing was done after that
NothingAfterLock == obs.trace[Len(obs.trace)] = <<"lock">>

\* C11: after a run, a virtual-timer exit raises the timer line, sets the
\* vtimer-masked flag and returns 0 without dispatch and without a change of the
\* program counter; a cancelled exit returns 0 without dispatch and leaves the
\* registers, the interrupt lines and the flags as they were; an exception
\* exit is dispatched on its class; any other reason aborts
C11_ExitReasons ==
    /\ ReasonExit("HV_EXIT_REASON_VTIMER_ACTIVATED") =>
           /\ ~aborted /\ obs.ret = 0 /\ ~Dispatched /\ NothingAfterLock
           /\ machine.vtimer_irq /\ cpu.vtimer_masked
           /\ hw = obs.hw_exit /\ ~vcpu_dirty
           /\ cpu = [obs.at_run.cpu EXCEPT !.vtimer_masked = TRUE]
    /\ ReasonExit("HV_EXIT_REASON_CANCELED") =>
           /\ ~aborted /\ obs.ret = 0 /\ ~Dispatched /\ NothingAfterLock
           /\ hw = obs.hw_exit /\ ~vcpu_dirty
           /\ cpu = obs.at_run.cpu
           /\ machine.vtimer_irq = obs.at_run.vtimer_irq
    /\ ReasonExit("HV_EXIT_REASON_EXCEPTION") => Dispatched
    /\ (obs.op = "vcpu_exec" /\ obs.resumed
           /\ obs.exit.reason \notin {"HV_EXIT_REASON_EXCEPTION", "HV_EXIT_REASON_CANCELED",
                                      "HV_EXIT_REASON_VTIMER_ACTIVATED"}) =>
           aborted /\ ~Dispatched

C11_Witness ==
    /\ ReasonExit("HV_EXIT_REASON_VTIMER_ACTIVATED")
    /\ machine.vtimer_irq /\ cpu.vtimer_masked /\ ~obs.at_run.vtimer_irq
    /\ ~obs.at_run.cpu.vtimer_masked /\ hw.reg[HV_REG_PC] = PC0

(***************************************************************************)
(* Exception classes without a handler.                                    *)
(***************************************************************************)
HandledClasses ==
    {EC_DATAABORT, EC_SYSTEMREGISTERTRAP, EC_WFX_TRAP, EC_AA64_HVC, EC_AA64_SMC,
     EC_SOFTWARESTEP, EC_AA64_BKPT}

\* the last operation was a run that ended with an exception of another class
UnhandledClassExit ==
    /\ ReasonExit("HV_EXIT_REASON_EXCEPTION")
    /\ Field(obs.exit.syndrome, ARM_EL_EC_SHIFT, 6) \notin HandledClasses

ErrorReported == \E i \in DOMAIN obs.trace : obs.trace[i] = <<"error_report">>

\* C12: an exception of a class without a handler is fatal: hvf_vcpu_exec does
\* not return to its caller after it has synchronized the state and logged
C12_AsStated == UnhandledClassExit => aborted

\* the exit is logged and hvf_vcpu_exec returns 0 with the program counter still
\* at the trapping instruction
C12_Witness ==
    /\ UnhandledClassExit /\ ErrorReported
    /\ ~aborted /\ obs.ret = 0
    /\ vcpu_dirty /\ env.pc = PcAtExit

(***************************************************************************)
(* Failed accelerator calls.                                               *)
(***************************************************************************)
FailedCalls == {i \in DOMAIN obs.trace : obs.trace[i][1] = "hv_error"}

\* C13: every accelerator call that returns an error aborts the process, and
\* nothing is executed after the failed call
C13_AsStated ==
    \A i \in FailedCalls : aborted /\ i = Len(obs.trace)

\* a failed assertion of an interrupt line is followed by a hardware run
C13_Witness ==
    /\ ~aborted /\ obs.resumed
    /\ \E i \in FailedCalls :
           /\ obs.trace[i] = <<"hv_error", "hv_vcpu_set_pending_interrupt">>
           /\ \E j \in DOMAIN obs.trace : j > i /\ obs.trace[j] = <<"run">>
    /\ obs.irq_pre # {} /\ obs.at_run.pending = {}

\* the calls whose status is passed to assert_hvf_ok abort the process
CheckedCallsAbort ==
    \A i \in FailedCalls :
        obs.trace[i][2] \notin {"hv_vcpu_set_pending_interrupt", "hv_vcpu_set_vtimer_mask"}
            => aborted /\ i = Len(obs.trace)

(***************************************************************************)
(* Data aborts without a valid syndrome.                                   *)
(***************************************************************************)
\* the last operation was a run that ended with a data abort whose ISV bit is clear
IsvClearExit ==
    /\ ReasonExit("HV_EXIT_REASON_EXCEPTION")
    /\ Field(obs.exit.syndrome, ARM_EL_EC_SHIFT, 6) = EC_DATAABORT
    /\ obs.exit.syndrome \cap ARM_EL_ISV = {}

\* C14: a data abort whose syndrome has ISV clear aborts the process before guest
\* memory is accessed, before a register is read or written and before the
\* program counter is advanced: the hardware state is the one of the exit, the
\* emulated state and the memory are the ones before the call, and nothing is
\* done after the dispatch
C14_IsvClearAborts ==
    /\ [](IsvClearExit =>
             /\ aborted /\ hw = obs.hw_exit /\ ~vcpu_dirty
             /\ obs.trace[Len(obs.trace)] = <<"dispatch">>)
    /\ [][IsvClearExit' => mem' = mem /\ env' = env /\ cpreg_values' = cpreg_values]_vars

\* the abort happens with memory that an earlier store has written to
C14_Witness ==
    /\ IsvClearExit /\ aborted
    /\ AbortIsWrite(obs.exit)
    /\ mem # NoMem /\ hw.reg[HV_REG_PC] = PC0

(***************************************************************************)
(* Reads of the hardware registers and the dirty flag.                     *)
(***************************************************************************)
\* the reads of a hardware register the last operation made with the dirty flag set
DirtyReads ==
    {i \in DOMAIN obs.trace : obs.trace[i][1] = "hw_read" /\ obs.trace[i][2]}

\* C15: no operation reads a hardware register while the dirty flag is set
C15_AsStated == DirtyReads = {}

\* a CPU-suspend call: hvf_wfi reads the timer control from the hardware after the
\* firmware-call path has synchronized the state, without a push in between
C15_Witness ==
    /\ PsciExit(SuspendIds)
    /\ \E i \in TracePos(<<"wfi">>) : \E j \in DirtyReads : i < j
    /\ obs.irq_pre = {}

(***************************************************************************)
(* The dirty flag at a hardware resume.                                    *)
(***************************************************************************)
\* the pushes of the emulated state made before the hardware was resumed
PushesBeforeRun ==
    {i \in TracePos(<<"push">>) : \A j \in TracePos(<<"run">>) : i < j}

\* C16: at a hardware resume the dirty flag is clear; between the entry to
\* hvf_vcpu_exec and the resume the state was pushed once if the flag was set at
\* the entry and not at all if it was clear; a flush with the flag clear writes
\* no hardware register
C16_PushBeforeResume ==
    /\ (obs.op = "vcpu_exec" /\ obs.resumed) =>
           /\ ~obs.at_run.dirty
           /\ Cardinality(PushesBeforeRun) = IF obs.dirty_pre THEN 1 ELSE 0
    /\ (~vcpu_dirty) => (flush_cpu_state(Cur).hw = hw /\ flush_cpu_state(Cur).trace = <<>>)
    /\ (obs.op = "get_reg" /\ ~obs.dirty_pre) => (hw = obs.hw_pre /\ TracePos(<<"push">>) = {})

\* a run entered with the flag set, after an exit handler's write made the
\* emulated state the newer one
C16_Witness ==
    /\ obs.op = "vcpu_exec" /\ obs.resumed /\ obs.dirty_pre
    /\ Cardinality(PushesBeforeRun) = 1
    /\ obs.prev.op = "get_registers"

(***************************************************************************)
(* Interrupt injection before a hardware resume.                           *)
(***************************************************************************)
\* the events of the last operation that came before the hardware resume
BeforeRun(e) == {i \in TracePos(e) : \A j \in TracePos(<<"run">>) : i < j}

\* the lines hvf_vcpu_exec asserted on the hardware vCPU before the resume
LinesAsserted ==
    {type \in {"HV_INTERRUPT_TYPE_IRQ", "HV_INTERRUPT_TYPE_FIQ"} :
        BeforeRun(<<"set_pending", type>>) # {}}

\* C17: before a hardware resume hvf_vcpu_exec asserts the IRQ line if and only if
\* the hard-interrupt request is set, and the FIQ line if and only if the FIQ
\* request is set, each on its own; the injection step runs in every invocation
\* that resumes the hardware, and the asserted lines are pending at the resume
C17_InjectBeforeResume ==
    (obs.op = "vcpu_exec" /\ obs.resumed) =>
        /\ BeforeRun(<<"inject_interrupts">>) # {}
        /\ "HV_INTERRUPT_TYPE_IRQ" \in LinesAsserted <=> "CPU_INTERRUPT_HARD" \in obs.irq_pre
        /\ "HV_INTERRUPT_TYPE_FIQ" \in LinesAsserted <=> "CPU_INTERRUPT_FIQ" \in obs.irq_pre
        /\ LinesAsserted \subseteq obs.at_run.pending
        /\ obs.at_run.cpu.interrupt_request = obs.irq_pre

\* a resume with the FIQ line asserted and the IRQ line not
C17_Witness ==
    /\ obs.op = "vcpu_exec" /\ obs.resumed
    /\ obs.irq_pre = {"CPU_INTERRUPT_FIQ"}
    /\ LinesAsserted = {"HV_INTERRUPT_TYPE_FIQ"}
    /\ obs.at_run.pending = {"HV_INTERRUPT_TYPE_FIQ"}
    /\ BeforeRun(<<"inject_interrupts">>) # {}

\* the lines pending at a resume are the ones asserted in the same invocation
PendingIsAsserted ==
    (obs.op = "vcpu_exec" /\ obs.resumed) => obs.at_run.pending = LinesAsserted

(***************************************************************************)
(* A halted CPU.                                                           *)
(***************************************************************************)
\* hvf_vcpu_exec was called with the CPU halted
HaltedCall == obs.op = "vcpu_exec" /\ obs.halted_pre

\* the program counter the guest is at
GuestPc == IF vcpu_dirty THEN env.pc ELSE hw.reg[HV_REG_PC]

\* C18: called with the CPU halted, hvf_vcpu_exec returns EXCP_HLT with the state
\* synchronized; it does not resume the hardware, does not release the lock and
\* does not advance the program counter, and the CPU is still halted after it
C18_HaltedReturnsHlt ==
    /\ [](HaltedCall =>
             /\ ~aborted /\ obs.ret = EXCP_HLT /\ vcpu_dirty
             /\ ~obs.resumed /\ TracePos(<<"run">>) = {}
             /\ TracePos(<<"unlock">>) = {} /\ machine.iothread_locked
             /\ cpu.halted)
    /\ [][(cpu.halted /\ HaltedCall') => GuestPc' = GuestPc]_vars

\* a second call in a row for a halted CPU, with an interrupt requested
C18_Witness ==
    /\ HaltedCall /\ obs.ret = EXCP_HLT
    /\ obs.dirty_pre /\ obs.irq_pre # {}
    /\ machine.power_state[cpu.mp_affinity] = PSCI_OFF

(***************************************************************************)
(* The global execution lock.                                              *)
(***************************************************************************)
IsLockEvent(e) == e[1] \in {"lock", "unlock"}

\* the releases and acquisitions of the lock during the last operation, in order
LockEvents == SelectSeq(obs.trace, IsLockEvent)

\* the places where the thread is in the hardware run or in the blocking wait
Blocking == TracePos(<<"run">>) \cup TracePos(<<"pselect">>)

\* C19: the lock is released immediately before each hardware run and each
\* blocking wait and taken again immediately after, it is released for nothing
\* else, releases and acquisitions alternate, and the lock is held when
\* hvf_vcpu_exec returns
C19_LockDiscipline ==
    /\ ~aborted => machine.iothread_locked
    /\ (obs.op = "vcpu_exec" /\ ~aborted) =>
           /\ \A i \in Blocking :
                  /\ i > 1 /\ obs.trace[i - 1] = <<"unlock">>
                  /\ i < Len(obs.trace) /\ obs.trace[i + 1] = <<"lock">>
           /\ \A i \in TracePos(<<"unlock">>) : i + 1 \in Blocking
           /\ \A i \in TracePos(<<"lock">>) : i - 1 \in Blocking
           /\ \A k \in DOMAIN LockEvents :
                  LockEvents[k] = IF k % 2 = 1 THEN <<"unlock">> ELSE <<"lock">>
           /\ Len(LockEvents) % 2 = 0

\* a call that ran the guest and then waited for an interrupt
C19_Witness ==
    /\ obs.op = "vcpu_exec" /\ ~aborted
    /\ TracePos(<<"run">>) # {} /\ TracePos(<<"pselect">>) # {}
    /\ Len(LockEvents) = 4 /\ machine.iothread_locked

(***************************************************************************)
(* The kick and the idle wait.                                             *)
(***************************************************************************)
\* the vCPU thread is in hvf_wait_for_ipi, before the return of pselect
InIdleWait == thread.pc \in {"clear", "unlock", "pselect"}

\* a kick was made after hvf_wfi looked at the interrupt requests
KickedAfterCheck == InIdleWait /\ thread.kicked

\* C20: a kick made after the idle scheduler has looked at the interrupt
\* requests makes the wait return: a thread that is in pselect after such a kick
\* has SIG_IPI pending, and a thread that was kicked on its way to or in the wait
\* leaves the wait
C20_KickEndsIdleWait ==
    /\ []((thread.pc = "pselect" /\ thread.kicked) => thread.sig_ipi)
    /\ (KickedAfterCheck ~> thread.pc = "loop")

\* the interrupt was raised and the kick made between the release of the lock
\* and pselect, by a device thread that still holds the lock, for a wait without
\* a timeout
C20_Witness ==
    /\ thread.pc = "pselect" /\ thread.ts = "forever"
    /\ thread.kicked /\ thread.sig_ipi
    /\ thread.dev = "done" /\ cpu.interrupt_request # {}

(***************************************************************************)
(* The emulated state after a hardware run.                                *)
(***************************************************************************)
\* the pulls of the hardware state made after the run and before the dispatch
PullsBeforeDispatch ==
    {i \in TracePos(<<"pull">>) :
        /\ \A j \in TracePos(<<"run">>) : j < i
        /\ \A d \in TracePos(<<"dispatch">>) : i < d}

\* C21: after every hardware run hvf_vcpu_exec pulls the register state into the
\* emulated state before it classifies the exit
C21_AsStated ==
    (obs.op = "vcpu_exec" /\ obs.resumed /\ ~aborted) => PullsBeforeDispatch # {}

\* a store was emulated with the emulated register and program counter still
\* holding the values of before the run
C21_Witness ==
    /\ StoreExit /\ ~aborted
    /\ TracePos(<<"pull">>) = {}
    /\ ~vcpu_dirty
    /\ env.xregs[0] # obs.hw_exit.reg[HV_REG_X0]
    /\ env.pc # PcAtExit

(***************************************************************************)
(* The place of the virtual-timer reconciliation.                          *)
(***************************************************************************)
\* the timer control of the hardware shows an enabled, unmasked, pending timer
TimerAsserting(ctl) ==
    ctl \cap (TMR_CTL_ENABLE \cup TMR_CTL_IMASK \cup TMR_CTL_ISTATUS)
        = (TMR_CTL_ENABLE \cup TMR_CTL_ISTATUS)

\* the reconciliations made after the run and before the dispatch
SyncsBeforeDispatch ==
    {i \in DOMAIN obs.trace :
        /\ obs.trace[i] = <<"sync_vtimer">>
        /\ \A j \in TracePos(<<"run">>) : j < i
        /\ \A d \in TracePos(<<"dispatch">>) : i < d}

\* C22: on an exception exit the virtual timer is reconciled after the run has
\* returned and before the exception class is dispatched
C22_AsStated ==
    (ReasonExit("HV_EXIT_REASON_EXCEPTION") /\ obs.at_run.cpu.vtimer_masked /\ ~aborted)
        => SyncsBeforeDispatch # {}

\* the guest has disabled its timer during the run; after the exception exit the
\* timer line is still raised and the timer still masked
C22_Witness ==
    /\ ReasonExit("HV_EXIT_REASON_EXCEPTION") /\ ~aborted
    /\ obs.at_run.cpu.vtimer_masked
    /\ ~TimerAsserting(obs.hw_exit.sysreg["HV_SYS_REG_CNTV_CTL_EL0"])
    /\ machine.vtimer_irq /\ cpu.vtimer_masked /\ hw.vtimer_mask
    /\ Dispatched

(***************************************************************************)
(* Properties of the firmware calls.                                       *)
(***************************************************************************)
X0AtExit == obs.hw_exit.reg[HV_REG_X0]
CpsrAtExit == obs.hw_exit.reg[HV_REG_CPSR]
VbarAtExit == obs.hw_exit.sysreg["HV_SYS_REG_VBAR_EL1"]
XRegsAtExit == [i \in XIdx |-> obs.hw_exit.reg[HV_REG_X0 + i]]

\* the result of the PSCI functions the guest calls here
PsciResultOf(id) ==
    IF id = QEMU_PSCI_0_2_FN_PSCI_VERSION THEN QEMU_PSCI_0_2_RET_VERSION_0_2
    ELSE QEMU_PSCI_RET_NOT_SUPPORTED

\* GPR0 carries the CPU-service-call signature
HasServiceSignature(x0) == Hex(<<12, 1, 0, 0, 0, 0, 0, 0>>) \subseteq x0

\* the exception registers and the program counter are as the guest left them
NoExceptionInjected ==
    /\ env.pc = PcAtExit
    /\ \A r \in {"ELR_EL1", "SPSR_EL1", "ESR_EL1"} :
           LET i == CHOOSE j \in DOMAIN hvf_sreg_match : hvf_sreg_match[j].key = r
           IN env.cp[r] = obs.hw_exit.sysreg[hvf_sreg_match[i].reg]

\* the emulated state after an undefined-instruction exception taken to EL1
UndefTaken ==
    /\ env.cp["ELR_EL1"] = PcAtExit
    /\ env.cp["SPSR_EL1"] = CpsrAtExit
    /\ env.cp["ESR_EL1"] = syn_uncategorized
    /\ PSTATE_DAIF \subseteq env.daif
    /\ env.pc = VbarAtExit

\* the same values in the hardware registers h
UndefInHardware(h) ==
    /\ h.sysreg["HV_SYS_REG_ELR_EL1"] = PcAtExit
    /\ h.sysreg["HV_SYS_REG_SPSR_EL1"] = CpsrAtExit
    /\ h.sysreg["HV_SYS_REG_ESR_EL1"] = syn_uncategorized
    /\ PSTATE_DAIF \subseteq h.reg[HV_REG_CPSR]
    /\ h.reg[HV_REG_PC] = VbarAtExit

\* the push the next hvf_vcpu_exec starts with carries them to the hardware
UndefReachesHardware == vcpu_dirty /\ UndefInHardware(flush_cpu_state(Cur).hw)

HvcExit == ExceptionExit({EC_AA64_HVC})

\* C23: on an HVC exit the program counter is never advanced by an instruction
\* width; the result of a recognized PSCI function is placed in GPR0; a call that
\* is not PSCI but carries the CPU-service-call signature in GPR0 injects no
\* exception; every other call delivers an undefined-instruction exception to
\* EL1 (ELR_EL1 = the PC at the exit, SPSR_EL1 = the old processor state,
\* ESR_EL1 = the uncategorized syndrome, interrupts masked, PC = VBAR_EL1), and
\* these values reach the hardware with the push before the next resume.
C23_HvcExit ==
    HvcExit =>
        /\ hw.reg[HV_REG_PC] = PcAtExit
        /\ env.pc # AddPow2(PcAtExit, 2)
        /\ Handled => GPR0 = Int32ToU64(PsciResultOf(X0AtExit)) /\ NoExceptionInjected
        /\ (~Handled /\ HasServiceSignature(X0AtExit)) => NoExceptionInjected
        /\ (~Handled /\ ~HasServiceSignature(X0AtExit)) =>
               UndefTaken /\ UndefReachesHardware

\* an unknown call from EL0 with the carry flag set has been turned into an
\* exception, and a service call has gone through without one
C23_Witness ==
    /\ HvcExit /\ ~Handled /\ X0AtExit = {}
    /\ CpsrAtExit = {29} /\ PcAtExit = PCLast
    /\ env.pc = VBAR0 /\ env.cp["SPSR_EL1"] = {29}
    /\ hw.reg[HV_REG_PC] = PCLast

SmcExit == ExceptionExit({EC_AA64_SMC})

\* the hardware holds the emulated state with v in GPR0 and the PC 4 further
PushedAndAdvanced(v) ==
    /\ ~vcpu_dirty
    /\ hw.reg[HV_REG_X0] = v
    /\ \A i \in XIdx \ {0} : hw.reg[HV_REG_X0 + i] = XRegsAtExit[i]
    /\ PcAdvancedBy4

\* C24: on an SMC exit, the result of a recognized PSCI function is pushed to the
\* hardware in GPR0 and the hardware PC is then 4 further; with the boot-probe
\* value in GPR0, GPR0 becomes -1 and the PC is 4 further; in every other case
\* an undefined-instruction exception is injected, the PC is not advanced by 4
\* and no general-purpose register is modified.
C24_SmcExit ==
    SmcExit =>
        /\ Handled => PushedAndAdvanced(Int32ToU64(PsciResultOf(X0AtExit)))
        /\ (~Handled /\ X0AtExit = QEMU_SMCCC_TC_WINDOWS10_BOOT) => PushedAndAdvanced(AllOnes)
        /\ (~Handled /\ X0AtExit # QEMU_SMCCC_TC_WINDOWS10_BOOT) =>
               /\ UndefTaken /\ UndefReachesHardware
               /\ hw.reg[HV_REG_PC] = PcAtExit
               /\ env.xregs = XRegsAtExit
               /\ \A i \in XIdx : hw.reg[HV_REG_X0 + i] = XRegsAtExit[i]

\* a MIGRATE call made with SMC at the last instruction of the address space
\* has left -1 in the hardware GPR0 and the hardware PC at 0
C24_Witness ==
    /\ SmcExit /\ Handled /\ X0AtExit = QEMU_PSCI_0_2_FN_MIGRATE
    /\ PcAtExit = PCLast /\ hw.reg[HV_REG_PC] = {}
    /\ hw.reg[HV_REG_X0] = AllOnes /\ ~vcpu_dirty

(***************************************************************************)
(* Properties of the WFx trap.                                             *)
(***************************************************************************)
WfxTrapExit == ExceptionExit({EC_WFX_TRAP})
WfeExit == WfxTrapExit /\ WFX_IS_WFE \subseteq obs.exit.syndrome

\* the last thing the call did was the step of the hardware PC
AdvanceIsLast ==
    /\ PcAdvancedBy4
    /\ obs.trace # <<>> /\ obs.trace[Len(obs.trace)] = <<"hw_read", FALSE>>
    /\ \A i \in TracePos(<<"pselect">>) \cup TracePos(<<"wfi">>) : i < Len(obs.trace)

\* nothing but the hardware PC differs from the state at the exit
OnlyPcChanged ==
    /\ hw = [obs.hw_exit EXCEPT !.reg[HV_REG_PC] = AddPow2(@, 2)]
    /\ cpu = obs.at_run.cpu
    /\ machine.vtimer_irq = obs.at_run.vtimer_irq
    /\ vcpu_dirty = obs.at_run.dirty
    /\ machine.iothread_locked

\* C25: on a WFx trap exit the program counter is always advanced by exactly 4;
\* for wait-for-event nothing blocks and no other state changes; for
\* wait-for-interrupt the idle scheduler is entered only when neither IRQ nor
\* FIQ is requested, and the PC is advanced after the idle scheduler has returned.
C25_WfxTrap ==
    /\ [](WfxTrapExit => AdvanceIsLast)
    /\ [](WfeExit => TracePos(<<"pselect">>) = {} /\ TracePos(<<"wfi">>) = {} /\ OnlyPcChanged)
    /\ []((WfiExit /\ TracePos(<<"pselect">>) # {}) => ~IrqAtWfi)
    /\ [][WfeExit' => (env' = env /\ mem' = mem)]_vars

\* a wait-for-interrupt that went through the idle scheduler and then stepped
\* over the instruction
C25_Witness ==
    /\ WfiExit /\ TracePos(<<"pselect">>) # {} /\ ~IrqAtWfi
    /\ hw.reg[HV_REG_PC] = AddPow2(PC0, 2)
    /\ obs.wait.kind = "timeout"

(***************************************************************************)
(* Properties of the system-register traps.                                *)
(***************************************************************************)
SysRegExit == ExceptionExit({EC_SYSTEMREGISTERTRAP})

DiscardedWrites == {SYSREG_CNTPCT_EL0, SYSREG_CNTP_CTL_EL0, SYSREG_OSLAR_EL1}
IccRegs ==
    SYSREG_ICC_OTHER \cup {SYSREG_ICC_CTLR_EL1, SYSREG_ICC_EOIR0_EL1, SYSREG_ICC_EOIR1_EL1}
InterceptedReads == {SYSREG_CNTPCT_EL0, SYSREG_PMCCNTR_EL0} \cup IccRegs

\* a write the handler discards, or to a register it does not know
IgnoredWrite == SysRegExit /\ ~TrapIsRead /\ TrapReg \notin IccRegs
\* a read of a register the handler does not know
UnknownRead == SysRegExit /\ TrapIsRead /\ TrapReg \notin InterceptedReads

CpWrites == {i \in DOMAIN obs.trace : obs.trace[i][1] = "cp_write"}

\* C26: a trapped write to the physical counter, the physical timer control or
\* the OS-lock register, and a trapped write to a register that is not
\* intercepted, changes no guest-visible state other than the program-counter
\* advance; a trapped read of a register that is not intercepted delivers zero
\* to the destination register.
C26_IgnoredAccesses ==
    /\ [](IgnoredWrite =>
             /\ hw = [obs.hw_exit EXCEPT !.reg[HV_REG_PC] = AddPow2(@, 2)]
             /\ machine.vtimer_irq = obs.at_run.vtimer_irq
             /\ cpu = obs.at_run.cpu
             /\ CpWrites = {})
    /\ []((UnknownRead /\ TrapRt \in XIdx) =>
             /\ hw.reg[HV_REG_X0 + TrapRt] = {}
             /\ hw = [obs.hw_exit EXCEPT !.reg[HV_REG_PC] = AddPow2(@, 2),
                                         !.reg[HV_REG_X0 + TrapRt] = {}])
    /\ [][IgnoredWrite' => (mem' = mem /\ machine'.power_state = machine.power_state)]_vars

\* a write of a non-zero X0 to an unknown register: the state was pulled and
\* pushed back, and only the PC has moved
C26_Witness ==
    /\ IgnoredWrite /\ TrapReg = SYSREG_UNKNOWN /\ TrapRt = 0
    /\ TracePos(<<"pull">>) # {} /\ TracePos(<<"push">>) # {}
    /\ hw.reg[HV_REG_X0] = V1 /\ ~vcpu_dirty
    /\ hw.reg[HV_REG_PC] = AddPow2(PC0, 2)

EoiRegs == {SYSREG_ICC_EOIR0_EL1, SYSREG_ICC_EOIR1_EL1}
EoiWrite == SysRegExit /\ ~TrapIsRead /\ TrapReg \in EoiRegs
OtherIccWrite == SysRegExit /\ ~TrapIsRead /\ TrapReg \in IccRegs \ EoiRegs

\* the value of the source register went to the coprocessor-register emulation
WrittenValue == IF TrapRt \in XIdx THEN obs.hw_exit.reg[HV_REG_X0 + TrapRt] ELSE {}
ValueForwarded ==
    /\ CpWrites # {}
    /\ \A i \in CpWrites : obs.trace[i] = <<"cp_write", TrapReg, WrittenValue>>

\* C27: a trapped write to ICC_EOIR0_EL1 or ICC_EOIR1_EL1 forwards the value to
\* the coprocessor-register emulation and, whatever the value, deasserts the
\* virtual-timer interrupt line and unmasks the hardware virtual timer; a write
\* to any other ICC register leaves the timer line and the timer mask unchanged.
C27_EoiWrite ==
    /\ EoiWrite => ValueForwarded /\ ~machine.vtimer_irq /\ ~hw.vtimer_mask
    /\ OtherIccWrite =>
           /\ ValueForwarded
           /\ machine.vtimer_irq = obs.at_run.vtimer_irq
           /\ hw.vtimer_mask = obs.hw_exit.vtimer_mask

\* the timer had fired and was still asserting and masked when the guest wrote
\* zero to ICC_EOIR0_EL1
C27_Witness ==
    /\ EoiWrite /\ TrapReg = SYSREG_ICC_EOIR0_EL1 /\ WrittenValue = {}
    /\ obs.at_run.vtimer_irq /\ obs.hw_exit.vtimer_mask
    /\ ~machine.vtimer_irq /\ ~hw.vtimer_mask
    /\ cpu.vtimer_masked

(***************************************************************************)
(* Properties of the breakpoint front end.                                 *)
(***************************************************************************)
\* every insertion has been matched by a removal, and every call succeeded
AllRemoved ==
    /\ ~machine.bp_failed
    /\ \A a \in BpAddrs : machine.bp[a].n = 0

Restored(a) == MemValue(mem, a, 4) = machine.bp[a].orig

\* C28: after any sequence of successful insertions and removals, once every
\* inserted address has been removed, guest memory at each such address holds
\* the instruction it held before its first insertion, also when two addresses
\* are inserted before either is removed and when one address is inserted twice
C28_AsStated ==
    AllRemoved => \A a \in BpAddrs : machine.bp[a].seen => Restored(a)

\* both addresses were patched and every insertion removed, and the first
\* address now holds the instruction of the second
C28_Witness ==
    /\ AllRemoved /\ \A a \in BpAddrs : machine.bp[a].seen
    /\ machine.bp[0].orig = GuestImage[0]
    /\ MemValue(mem, 0, 4) = GuestImage[4]

(***************************************************************************)
(* Properties of the host-feature cache.                                   *)
(***************************************************************************)
\* C29: under concurrent calls of hvf_arm_set_cpu_features_from_host the cache
\* is initialized exactly once, and every caller that copies from the cache
\* finds all of its fields written
C29_AsStated ==
    /\ machine.host.inits <= 1
    /\ \A t \in ProbeThreads : machine.host.pc[t] = "done" => machine.host.got[t] = HostFields

\* one thread has copied a cache that held only dtb_compatible and features,
\* while the other was still reading the host registers
C29_Witness ==
    /\ machine.host.pc["t2"] = "done"
    /\ machine.host.got["t2"] = {"dtb_compatible", "features"}
    /\ machine.host.pc["t1"] = "midr"
    /\ machine.host.inits = 1

\* two threads are in the initialization at the same time
BothInitialize ==
    /\ machine.host.inits = 2
    /\ \A t \in ProbeThreads : machine.host.pc[t] \in {"features", "midr", "isar", "reset_sctlr"}

(***************************************************************************)
(* Properties of the virtual-timer reconciliation.                         *)
(***************************************************************************)
\* the timer control hvf_sync_vtimer reads at the start of the next call: the
\* hardware value, after the push if one is pending
CtlAtSync == flush_cpu_state(Cur).hw.sysreg["HV_SYS_REG_CNTV_CTL_EL0"]

\* the step is a call of hvf_vcpu_exec that ran the guest, and the run did not
\* end with a firing of the timer (which masks the timer again)
RanWithoutFiring ==
    /\ obs'.op = "vcpu_exec" /\ obs'.resumed /\ ~aborted'
    /\ obs'.exit.reason # "HV_EXIT_REASON_VTIMER_ACTIVATED"

\* line, hardware mask and flag when the guest was resumed
SyncedTo(line, mask, flag) ==
    /\ obs'.at_run.vtimer_irq = line
    /\ obs'.hw_exit.vtimer_mask = mask
    /\ obs'.at_run.cpu.vtimer_masked = flag

TimerArmedAtWfi == WfiExit /\ ~IrqAtWfi /\ 0 \in CtlAtWfi /\ ~(1 \in CtlAtWfi)

\* the compare value is ahead of the counter by 2 ms worth of ticks or more
DueLater == CvalAtWfi > NowAtWfi /\ RemainingTicks * 1000 >= 2 * gt_cntfrq_hz

\* C31: hvf_wfi treats the timer as past due only when the compare value is not
\* greater than the counter: for every compare value at least 2 ms worth of
\* ticks ahead, the all-ones value and the values half the counter's range or
\* more ahead included, it blocks, with a nanosecond part in 0..999999999 and a
\* total equal to the remaining ticks divided by the counter frequency.
C31_AsStated ==
    (TimerArmedAtWfi /\ DueLater) =>
        /\ obs.wait.kind = "timeout"
        /\ obs.wait.nsec \in 0..999999999
        /\ obs.wait.sec * 1000000000 + obs.wait.nsec
               = RemainingTicks * (1000000000 \div gt_cntfrq_hz)

\* the compare value is all ones, the counter stands at 1, and hvf_wfi has
\* returned without blocking
C31_Witness ==
    /\ TimerArmedAtWfi /\ DueLater
    /\ CvalAtWfi = 2^TimerBits - 1 /\ NowAtWfi = 1
    /\ obs.wait.kind = "none"

\* below half the counter's range the timeout is as stated
DueSoonBlocks ==
    (TimerArmedAtWfi /\ DueLater /\ RemainingTicks < 2^(TimerBits - 1)) =>
        /\ obs.wait.kind = "timeout"
        /\ obs.wait.nsec \in 0..999999999
        /\ obs.wait.sec * 1000000000 + obs.wait.nsec
               = RemainingTicks * (1000000000 \div gt_cntfrq_hz)

C33_AsStated ==
    /\ ~machine.vt.unlocked_access
    /\ \A v \in VcpuThreads : machine.vt.added[v] = machine.vt.due[v]

\* thread b is about to run the guest for the first time, and its timer offset
\* was advanced by the time since the exit of thread a
C33_Witness ==
    /\ machine.vt.pc["b"] = "unlock" /\ machine.vt.own_exit["b"] = 0
    /\ machine.vt.added["b"] > 0 /\ machine.vt.due["b"] = 0
    /\ machine.vt.own_exit["a"] # 0

\* the timestamp is written by a thread that does not hold the lock
StampedUnlocked == machine.vt.unlocked_access /\ machine.vt.holder = "none"

(***************************************************************************)
(* Properties of debug control.                                            *)
(***************************************************************************)
\* the vCPU was resumed by the last operation; the guest left PSTATE and
\* MDSCR_EL1 as they were, so the state at the exit shows them as at the resume
ResumedRun == obs.op = "vcpu_exec" /\ obs.resumed
SteppingAtResume == obs.at_run.cpu.singlestep_enabled
BreakpointInserted == \E a \in BpAddrs : machine.bp[a].n > 0
TrappingAtResume == obs.hw_exit.trap_debug
StepBitsAtResume ==
    <<0 \in obs.hw_exit.sysreg["HV_SYS_REG_MDSCR_EL1"], PSTATE_SS \subseteq CpsrAtExit>>

\* C34: at every resume both single-step bits are set exactly when single-stepping
\* is enabled, and debug exceptions are trapped exactly when single-stepping is
\* enabled or a breakpoint is inserted, so that trapping is off again once all
\* breakpoints are removed and single-stepping is disabled
C34_AsStated ==
    ResumedRun =>
        /\ StepBitsAtResume = <<SteppingAtResume, SteppingAtResume>>
        /\ TrappingAtResume <=> (SteppingAtResume \/ BreakpointInserted)

\* a resume after the only breakpoint was removed again, with trapping still on
C34_Witness ==
    /\ ResumedRun /\ ~SteppingAtResume /\ ~machine.bp_failed
    /\ machine.bp[0].seen /\ ~BreakpointInserted
    /\ TrappingAtResume

\* what does hold at a resume: the single-step bits follow singlestep_enabled, and
\* debug exceptions are trapped whenever stepping is on or a breakpoint is inserted
DebugOnWhenNeeded ==
    ResumedRun =>
        /\ StepBitsAtResume = <<SteppingAtResume, SteppingAtResume>>
        /\ (SteppingAtResume \/ BreakpointInserted) => TrappingAtResume
SteppedResume == ResumedRun /\ SteppingAtResume /\ TrappingAtResume

====
